---- MODULE Spec2Model ----
(***************************************************************************)
(* A model of flax_rl's experience/update pipeline:                        *)
(*   - the vectorized environment pool, rl_tools/envs/wrappers/vector.py   *)
(*     (SubProcVecParallelEnv and its worker processes),                   *)
(*   - the update pipeline, rl_tools/algos/pipeline.py.                    *)
(* Index conventions: worker indices are those of the code (0-based);      *)
(* a Python list built by append is a TLA+ sequence, so entry i of the     *)
(* code's list is element i + 1 of the sequence.  A Python dict whose      *)
(* iteration order matters is a sequence of <<key, value>> pairs with      *)
(* distinct keys, in insertion order.                                      *)
(***************************************************************************)
EXTENDS Integers, Sequences, FiniteSets, TLC

\* ------------------------------------------------------------- bounds
\* Number of worker processes (len(env_fns)).
NumEnvs == 2
\* Time limit of the modelled environment: it truncates after MaxT steps.
MaxT == 2
\* Number of calls the caller makes on the pool in one behaviour.
MaxCalls == 3

Agents == {"a1", "a2"}
EnvIds == 0 .. (NumEnvs - 1)

\* ------------------------------------------------------ Python values
\* A value stored in an info dictionary, tagged with its Python type.
\* Numbers are held in tenths, so that 2.5 is 25 and the int 2 is 20.
IntV(n) == [ty |-> "int", v |-> 10 * n]
FloatV(tenths) == [ty |-> "float", v |-> tenths]
BoolV(b) == [ty |-> "bool", v |-> IF b THEN 10 ELSE 0]
ObsV(o) == [ty |-> "obs", v |-> o]
InfoV(d) == [ty |-> "info", v |-> d]
NoneV == [ty |-> "none", v |-> 0]

\* dict operations, on a sequence of <<key, value>> pairs
DictKeys(d) == {d[j][1] : j \in 1 .. Len(d)}
DictHas(d, k) == \E j \in 1 .. Len(d) : d[j][1] = k
DictGet(d, k) == d[CHOOSE j \in 1 .. Len(d) : d[j][1] = k][2]
DictSet(d, k, v) ==
    IF DictHas(d, k)
    THEN [j \in 1 .. Len(d) |-> IF d[j][1] = k THEN <<k, v>> ELSE d[j]]
    ELSE Append(d, <<k, v>>)

\* any(d.values()) of a dict of booleans keyed by agent
AnyValue(d) == \E ag \in DOMAIN d : d[ag]

\* -------------------------------------------------- the environment
\* The environment a worker hosts is a collaborator (a ParallelEnv); the
\* model is a counter environment: its state is the number of steps since
\* the last reset, the observation of every agent is that number, the reward
\* echoes the action, an episode is truncated at MaxT steps, and it may
\* terminate agent "a1" earlier; every step reports the info key "x".
EnvClosed == -1
TermPatterns ==
    { [ag \in Agents |-> FALSE], [ag \in Agents |-> ag = "a1"] }

EnvReset == [t |-> 0, obs |-> [ag \in Agents |-> 0], info |-> <<>>]

EnvStep(t, action) ==
    { [t |-> t + 1,
       obs |-> [ag \in Agents |-> t + 1],
       rew |-> [ag \in Agents |-> action[ag]],
       term |-> tp,
       trunc |-> [ag \in Agents |-> t + 1 >= MaxT],
       info |-> << <<"x", IntV(t + 1)>> >>] :
      tp \in TermPatterns }

\* ----------------------------------------------------- pool state
VARIABLES
    toWorker,   \* toWorker[i]: messages sent on parent_conns[i], not yet received by worker i
    toParent,   \* toParent[i]: replies sent by worker i, not yet received by the supervisor
    ps,         \* ps[i]: worker process i: [st: run | exited | crashed, why: what ended it,
                \*        at: the request it ended on]
    env,        \* env[i]: state of worker i's environment (steps since reset, or EnvClosed)
    waiting,    \* SubProcVecParallelEnv.waiting
    closed,     \* SubProcVecParallelEnv.closed
    sup,        \* the supervisor's position inside a blocking call
    ret,        \* outcome of the caller's latest completed call
    calls,      \* number of calls made so far
    lastOp,     \* the method of the latest call
    asyncId     \* the number of the latest step_async call, 0 when none

poolVars == <<toWorker, toParent, ps, env, waiting, closed, sup, ret, calls, lastOp, asyncId>>

\* What held when a call was made (bookkeeping that no code reads): the
\* flag waiting, whether a step was in flight, and (for step_wait) whether
\* the last worker had already replied while worker 0 had not.
NoPre == [pending |-> FALSE, inflight |-> FALSE, lastFirst |-> FALSE]
Idle == [op |-> "idle", i |-> 0, acc |-> <<>>, raw |-> <<>>, pre |-> NoPre]
NoRet == [op |-> "none", status |-> "ok", val |-> <<>>, raw |-> <<>>, pre |-> NoPre, sent |-> 0]

\* State after SubProcVecParallelEnv.__init__: every worker has answered the
\* constructor's reset (and worker 0 the three get_* queries), so the pipes
\* are empty and every environment is freshly reset.
PoolInit ==
    /\ toWorker = [i \in EnvIds |-> <<>>]
    /\ toParent = [i \in EnvIds |-> <<>>]
    /\ ps = [i \in EnvIds |-> [st |-> "run", why |-> "", at |-> 0]]
    /\ env = [i \in EnvIds |-> EnvReset.t]
    /\ waiting = FALSE
    /\ closed = FALSE
    /\ sup = Idle
    /\ ret = NoRet
    /\ calls = 0
    /\ lastOp = "__init__"
    /\ asyncId = 0

\* ------------------------------------------------------- the pipes
Alive(i) == ps[i].st = "run"
\* With the fork start method every worker inherits the pipe ends of its
\* siblings, so a message to a dead worker is buffered while any worker
\* lives; with spawn (or once all are dead) the send raises BrokenPipeError.
CanQueue(i) == Alive(i) \/ \E j \in EnvIds : Alive(j)
CanBreak(i) == ~Alive(i)
\* Number of messages a "send to every conn in order" loop gets out before
\* a send raises; NumEnvs when none raises.
SendOutcomes ==
    { k \in 0 .. NumEnvs :
        /\ \A j \in EnvIds : j < k => CanQueue(j)
        /\ k < NumEnvs => CanBreak(k) }
SendPrefix(msgs, k) ==
    [j \in EnvIds |-> IF j < k THEN Append(toWorker[j], msgs[j]) ELSE toWorker[j]]
\* conn.recv() on parent_conns[i] returns the oldest buffered reply, blocks
\* while the pipe is empty, and raises EOFError once the pipe is empty and
\* no process holds its other end open.
CanRecv(i) == toParent[i] # <<>>
CanEOF(i) == toParent[i] = <<>> /\ ~Alive(i)

\* ------------------------------------------------------- the worker
KnownCmds == {"close", "get_agents", "get_num_agents", "get_spaces", "step", "reset"}

\* any(terminated.values()) or any(truncated.values())
EpisodeEndedAll(terminated, truncated) ==
    (\A ag \in DOMAIN terminated : terminated[ag]) \/ (\A ag \in DOMAIN truncated : truncated[ag])
EpisodeEnded(terminated, truncated) == AnyValue(terminated) \/ AnyValue(truncated)

\* The tuple a worker sends back for a step whose env.step returned `out`;
\* `rst` is what env.reset() returns when the worker calls it.
WorkerStepResult(out, rst) ==
    IF EpisodeEnded(out.term, out.trunc)
    THEN [obs |-> rst.obs, rew |-> out.rew, term |-> out.term, trunc |-> out.trunc,
          info |-> DictSet(DictSet(rst.info, "final_observation", ObsV(out.obs)),
                           "final_info", InfoV(out.info))]
    ELSE [obs |-> out.obs, rew |-> out.rew, term |-> out.term, trunc |-> out.trunc,
          info |-> out.info]

HasCmd(i, cmds) == Alive(i) /\ toWorker[i] # <<>> /\ Head(toWorker[i]).cmd \in cmds

\* A faulty variant of WorkerStep: the environment is stepped and nothing is sent.
WorkerStepNoReply(i) ==
    /\ HasCmd(i, {"step"})
    /\ \E out \in EnvStep(env[i], Head(toWorker[i]).data) :
          env' = [env EXCEPT ![i] =
              IF EpisodeEnded(out.term, out.trunc) THEN EnvReset.t ELSE out.t]
    /\ toWorker' = [toWorker EXCEPT ![i] = Tail(@)]
    /\ UNCHANGED <<toParent, ps, waiting, closed, sup, ret, calls, lastOp, asyncId>>

\* cmd == "step", env.step returns.  The reply carries, beside the tuple sent
\* (val), the request it answers (id), its sender (from) what env.step returned
\* (out) and whether env.reset() was called (didReset): bookkeeping that no
\* code reads.
WorkerStep(i) ==
    /\ HasCmd(i, {"step"})
    /\ LET m == Head(toWorker[i]) IN
       \E out \in EnvStep(env[i], m.data) :
          /\ toParent' = [toParent EXCEPT ![i] = Append(@,
                 [kind |-> "step", id |-> m.id, from |-> i,
                  val |-> WorkerStepResult(out, EnvReset), out |-> out,
                  didReset |-> EpisodeEnded(out.term, out.trunc)])]
          /\ env' = [env EXCEPT ![i] =
                 IF EpisodeEnded(out.term, out.trunc) THEN EnvReset.t ELSE out.t]
    /\ toWorker' = [toWorker EXCEPT ![i] = Tail(@)]
    /\ UNCHANGED <<ps, waiting, closed, sup, ret, calls, lastOp, asyncId>>

\* The worker process dies on the request at the head of its pipe: the
\* exception leaves the while loop, nothing is sent.
WorkerDies(i, why) ==
    /\ ps' = [ps EXCEPT ![i] = [st |-> "crashed", why |-> why, at |-> Head(toWorker[i]).id]]
    /\ toWorker' = [toWorker EXCEPT ![i] = Tail(@)]
    /\ UNCHANGED <<toParent, env, waiting, closed, sup, ret, calls, lastOp, asyncId>>
\* A faulty variant of WorkerStepRaise: the reply is sent from a finally clause
\* before the process dies.
WorkerStepRaiseReplies(i) ==
    /\ HasCmd(i, {"step"})
    /\ ps' = [ps EXCEPT ![i] = [st |-> "crashed", why |-> "env.step", at |-> Head(toWorker[i]).id]]
    /\ toParent' = [toParent EXCEPT ![i] = Append(@,
           [kind |-> "error", id |-> Head(toWorker[i]).id, from |-> i, val |-> <<>>,
            out |-> <<>>, didReset |-> FALSE])]
    /\ toWorker' = [toWorker EXCEPT ![i] = Tail(@)]
    /\ UNCHANGED <<env, waiting, closed, sup, ret, calls, lastOp, asyncId>>

\* cmd == "step", env.step raises.
WorkerStepRaise(i) ==
    /\ HasCmd(i, {"step"})
    /\ WorkerDies(i, "env.step")

\* cmd == "reset"
WorkerReset(i) ==
    /\ HasCmd(i, {"reset"})
    /\ toParent' = [toParent EXCEPT ![i] = Append(@,
           [kind |-> "reset", id |-> Head(toWorker[i]).id, from |-> i,
            val |-> [obs |-> EnvReset.obs, info |-> EnvReset.info], out |-> <<>>,
            didReset |-> TRUE])]
    /\ env' = [env EXCEPT ![i] = EnvReset.t]
    /\ toWorker' = [toWorker EXCEPT ![i] = Tail(@)]
    /\ UNCHANGED <<ps, waiting, closed, sup, ret, calls, lastOp, asyncId>>

\* cmd == "close": env.close(), child_conn.close(), break
WorkerClose(i) ==
    /\ HasCmd(i, {"close"})
    /\ env' = [env EXCEPT ![i] = EnvClosed]
    /\ ps' = [ps EXCEPT ![i] = [st |-> "exited", why |-> "close", at |-> Head(toWorker[i]).id]]
    /\ toWorker' = [toWorker EXCEPT ![i] = Tail(@)]
    /\ UNCHANGED <<toParent, waiting, closed, sup, ret, calls, lastOp, asyncId>>

\* A faulty variant of WorkerUnknown: the unknown command is skipped ("else: pass").
WorkerUnknownSkipped(i) ==
    /\ Alive(i) /\ toWorker[i] # <<>> /\ Head(toWorker[i]).cmd \notin KnownCmds
    /\ toWorker' = [toWorker EXCEPT ![i] = Tail(@)]
    /\ UNCHANGED <<toParent, ps, env, waiting, closed, sup, ret, calls, lastOp, asyncId>>

\* else: raise NotImplementedError
WorkerUnknown(i) ==
    /\ Alive(i) /\ toWorker[i] # <<>> /\ Head(toWorker[i]).cmd \notin KnownCmds
    /\ WorkerDies(i, "NotImplementedError")

\* ------------------------------------------------- info aggregation
\* f"_{k}"
MaskKey(k) == "_" \o k

Numeric == {"int", "float", "bool"}
Trunc(v) == IF v >= 0 THEN (v \div 10) * 10 ELSE -(((-v) \div 10) * 10)
\* array[i] = val on a numpy array of the given dtype
CanStore(dtype, val) == dtype = "object" \/ val.ty \in Numeric
Cast(dtype, val) ==
    CASE dtype = "object" -> val
      [] dtype = "int" -> [ty |-> "int", v |-> Trunc(val.v)]
      [] dtype = "float" -> [ty |-> "float", v |-> val.v]
      [] dtype = "bool" -> BoolV(val.v # 0)
Store(arr, i, val) == [arr EXCEPT !.a[i] = Cast(arr.dtype, val)]

\* SubProcVecParallelEnv._init_info_arrays(dtype): (array, array_mask)
InitInfoArrays(ty) ==
    [array |-> IF ty \in Numeric
               THEN [dtype |-> ty, a |-> [i \in EnvIds |-> Cast(ty, IntV(0))]]
               ELSE [dtype |-> "object", a |-> [i \in EnvIds |-> NoneV]],
     mask |-> [dtype |-> "bool", a |-> [i \in EnvIds |-> BoolV(FALSE)]]]

\* SubProcVecParallelEnv._add_info(infos, info, env_num), from the j-th key
\* of info on.  infos is a function from keys to arrays; the result is
\* [err, infos], err naming the exception raised, "none" when it returns.
RECURSIVE AddInfoFrom(_, _, _, _)
AddInfoFrom(infos, info, env_num, j) ==
    IF j > Len(info) THEN [err |-> "none", infos |-> infos]
    ELSE LET k == info[j][1]
             val == info[j][2]
             fresh == k \notin DOMAIN infos
         IN  IF ~fresh /\ MaskKey(k) \notin DOMAIN infos
             THEN [err |-> "KeyError", infos |-> infos]
             ELSE LET arrs == IF fresh THEN InitInfoArrays(val.ty)
                              ELSE [array |-> infos[k], mask |-> infos[MaskKey(k)]]
                  IN  IF ~CanStore(arrs.array.dtype, val)
                      THEN [err |-> "TypeError", infos |-> infos]
                      ELSE AddInfoFrom(
                               (MaskKey(k) :> Store(arrs.mask, env_num, BoolV(TRUE)))
                                   @@ (k :> Store(arrs.array, env_num, val)) @@ infos,
                               info, env_num, j + 1)
AddInfo(infos, info, env_num) == AddInfoFrom(infos, info, env_num, 1)

\* step_wait's "for agent_id in self.agents: ... infos = self._add_info(infos, info, i)":
\* one call per agent, n calls left.
RECURSIVE AddInfoTimes(_, _, _, _)
AddInfoTimes(infos, info, env_num, n) ==
    IF n = 0 THEN [err |-> "none", infos |-> infos]
    ELSE LET r == AddInfo(infos, info, env_num)
         IN  IF r.err # "none" THEN r ELSE AddInfoTimes(r.infos, info, env_num, n - 1)

\* --------------------------------------------------- the supervisor
\* The outstanding messages of worker i: requests it has not received and
\* replies the supervisor has not received.
Outstanding(i) == [j \in 1 .. Len(toParent[i]) |-> toParent[i][j].kind]
                      \o [j \in 1 .. Len(toWorker[i]) |-> toWorker[i][j].cmd]
\* A step is in flight: every worker runs and has exactly one outstanding
\* message, a step request or the reply to it.
StepInFlight == waiting /\ \A i \in EnvIds : Alive(i) /\ Outstanding(i) = <<"step">>

Pre == [pending |-> waiting, inflight |-> StepInFlight, lastFirst |-> FALSE]
PreWait == [Pre EXCEPT !.lastFirst = toParent[0] = <<>> /\ toParent[NumEnvs - 1] # <<>>]

Returned(op, status, val, raw, pre, sent) ==
    [op |-> op, status |-> status, val |-> val, raw |-> raw, pre |-> pre, sent |-> sent]

CanCall == sup.op = "idle" /\ calls < MaxCalls

\* The caller's actions argument: one opaque action per agent and environment.
StepActions == [ag \in Agents |-> [i \in EnvIds |-> <<calls + 1, ag, i>>]]
\* {agent: action[i] for agent, action in actions.items()}
UnstackAction(actions, i) == [ag \in DOMAIN actions |-> actions[ag][i]]

\* SubProcVecParallelEnv.step_async(actions)
StepAsync ==
    /\ CanCall
    /\ \E k \in SendOutcomes :
         /\ toWorker' = SendPrefix(
                [j \in EnvIds |-> [cmd |-> "step", data |-> UnstackAction(StepActions, j),
                                   id |-> calls + 1]], k)
         /\ waiting' = IF k = NumEnvs THEN TRUE ELSE waiting
         /\ ret' = Returned("step_async", IF k = NumEnvs THEN "ok" ELSE "BrokenPipeError",
                            <<>>, <<>>, Pre, k)
    /\ calls' = calls + 1
    /\ lastOp' = "step_async"
    /\ asyncId' = calls + 1
    /\ UNCHANGED <<toParent, ps, env, closed, sup>>

\* step_wait is entered: the four per-agent dicts of empty lists, infos = {}.
EmptyStepAcc ==
    [observations |-> [ag \in Agents |-> <<>>],
     rewards |-> [ag \in Agents |-> <<>>],
     terminateds |-> [ag \in Agents |-> <<>>],
     truncateds |-> [ag \in Agents |-> <<>>],
     infos |-> <<>>]

StepWaitCall ==
    /\ CanCall
    /\ sup' = [op |-> "step_wait", i |-> 0, acc |-> EmptyStepAcc, raw |-> <<>>,
               pre |-> PreWait]
    /\ calls' = calls + 1
    /\ lastOp' = "step_wait"
    /\ UNCHANGED <<toWorker, toParent, ps, env, waiting, closed, ret, asyncId>>

\* A faulty variant of StepWaitBody: the values are inserted at the front of the lists.
StepWaitBodyPrepend(acc, m, i) ==
    IF m.kind # "step" THEN [err |-> "ValueError", acc |-> acc]
    ELSE LET r == AddInfoTimes(acc.infos, m.val.info, i, Cardinality(Agents))
         IN  [err |-> r.err,
              acc |-> [observations |-> [ag \in Agents |-> <<m.val.obs[ag]>> \o acc.observations[ag]],
                       rewards |-> [ag \in Agents |-> <<m.val.rew[ag]>> \o acc.rewards[ag]],
                       terminateds |-> [ag \in Agents |-> <<m.val.term[ag]>> \o acc.terminateds[ag]],
                       truncateds |-> [ag \in Agents |-> <<m.val.trunc[ag]>> \o acc.truncateds[ag]],
                       infos |-> r.infos]]

\* The body of step_wait's loop for worker i, on the received message m:
\* [err, acc].  "result, success = conn.recv()" followed by the unpacking of
\* result into five values succeeds only on a step reply: a reset reply is
\* (observation, info), whose first component, a dict of len(Agents) keys,
\* does not unpack into five values.
StepWaitBody(acc, m, i) ==
    IF m.kind # "step" THEN [err |-> "ValueError", acc |-> acc]
    ELSE LET r == AddInfoTimes(acc.infos, m.val.info, i, Cardinality(Agents))
         IN  [err |-> r.err,
              acc |-> [observations |-> [ag \in Agents |-> Append(acc.observations[ag], m.val.obs[ag])],
                       rewards |-> [ag \in Agents |-> Append(acc.rewards[ag], m.val.rew[ag])],
                       terminateds |-> [ag \in Agents |-> Append(acc.terminateds[ag], m.val.term[ag])],
                       truncateds |-> [ag \in Agents |-> Append(acc.truncateds[ag], m.val.trunc[ag])],
                       infos |-> r.infos]]

\* One iteration of "for i, conn in enumerate(self.parent_conns)": the
\* blocking recv on conn i and the appends; after the last one
\* waiting = False and the five dicts are returned.
StepWaitRecv ==
    /\ sup.op = "step_wait"
    /\ CanRecv(sup.i)
    /\ LET m == Head(toParent[sup.i])
           b == StepWaitBody(sup.acc, m, sup.i)
           raw == Append(sup.raw, m)
       IN  /\ toParent' = [toParent EXCEPT ![sup.i] = Tail(@)]
           /\ IF b.err # "none"
              THEN /\ sup' = Idle
                   /\ ret' = Returned("step_wait", b.err, <<>>, raw, sup.pre, 0)
                   /\ UNCHANGED waiting
              ELSE IF sup.i = NumEnvs - 1
              THEN /\ sup' = Idle
                   /\ waiting' = FALSE
                   /\ ret' = Returned("step_wait", "ok", b.acc, raw, sup.pre, 0)
              ELSE /\ sup' = [sup EXCEPT !.i = @ + 1, !.acc = b.acc, !.raw = raw]
                   /\ UNCHANGED <<waiting, ret>>
    /\ UNCHANGED <<toWorker, ps, env, closed, calls, lastOp, asyncId>>

\* A blocking recv of step_wait, reset or close finds the pipe closed.
RecvEOF ==
    /\ sup.op \in {"step_wait", "reset", "close_drain"}
    /\ CanEOF(sup.i)
    /\ sup' = Idle
    /\ ret' = Returned(IF sup.op = "close_drain" THEN "close" ELSE sup.op, "EOFError",
                       <<>>, sup.raw, sup.pre, 0)
    /\ UNCHANGED <<toWorker, toParent, ps, env, waiting, closed, calls, lastOp, asyncId>>

\* stack(xs): {k: np.stack(...)} over the keys of xs[0]
Stack(xs) == [ag \in DOMAIN xs[1] |-> [j \in 1 .. Len(xs) |-> xs[j][ag]]]

\* SubProcVecParallelEnv.reset(), up to its first recv: "reset" is sent on
\* every conn.  waiting is neither read nor written.
ResetCall ==
    /\ CanCall
    /\ \E k \in SendOutcomes :
         /\ toWorker' = SendPrefix(
                [j \in EnvIds |-> [cmd |-> "reset", data |-> <<>>, id |-> calls + 1]], k)
         /\ IF k = NumEnvs
            THEN /\ sup' = [op |-> "reset", i |-> 0, acc |-> <<>>, raw |-> <<>>,
                            pre |-> Pre]
                 /\ UNCHANGED ret
            ELSE /\ ret' = Returned("reset", "BrokenPipeError", <<>>, <<>>, Pre, k)
                 /\ UNCHANGED sup
    /\ calls' = calls + 1
    /\ lastOp' = "reset"
    /\ UNCHANGED <<toParent, ps, env, waiting, closed, asyncId>>

\* "s, i = zip(*results); return stack(s), i" on the N received messages.
\* A step reply is the pair ((obs, rew, terminated, truncated, info), True):
\* zip puts the 5-tuple into s, and stack fails on it (a tuple has neither
\* keys() nor values()).
ResetResult(results) ==
    IF \E j \in 1 .. Len(results) : results[j].kind # "reset"
    THEN [err |-> "AttributeError", val |-> <<>>]
    ELSE [err |-> "none",
          val |-> [obs |-> Stack([j \in 1 .. Len(results) |-> results[j].val.obs]),
                   infos |-> [j \in 1 .. Len(results) |-> results[j].val.info]]]

\* One recv of "results = [conn.recv() for conn in self.parent_conns]";
\* after the last one the result is built and returned.
ResetRecv ==
    /\ sup.op = "reset"
    /\ CanRecv(sup.i)
    /\ LET raw == Append(sup.raw, Head(toParent[sup.i]))
           r == ResetResult(raw)
       IN  /\ toParent' = [toParent EXCEPT ![sup.i] = Tail(@)]
           /\ IF sup.i = NumEnvs - 1
              THEN /\ sup' = Idle
                   /\ ret' = Returned("reset", IF r.err = "none" THEN "ok" ELSE r.err,
                                      r.val, raw, sup.pre, NumEnvs)
              ELSE /\ sup' = [sup EXCEPT !.i = @ + 1, !.raw = raw]
                   /\ UNCHANGED ret
    /\ UNCHANGED <<toWorker, ps, env, waiting, closed, calls, lastOp, asyncId>>

\* close(), from "for conn in self.parent_conns: conn.send(("close", None))"
\* on: the sends, then the supervisor joins the processes in order.
CloseSend(id, pre, raw) ==
    \E k \in SendOutcomes :
        /\ toWorker' = SendPrefix(
               [j \in EnvIds |-> [cmd |-> "close", data |-> <<>>, id |-> id]], k)
        /\ IF k = NumEnvs
           THEN /\ sup' = [op |-> "close_join", i |-> 0, acc |-> <<>>, raw |-> raw,
                           pre |-> pre]
                /\ UNCHANGED ret
           ELSE /\ sup' = Idle
                /\ ret' = Returned("close", "BrokenPipeError", <<>>, raw, pre, k)

\* A faulty variant of CloseCall without the "if self.closed: return".
CloseCallUnguarded ==
    /\ CanCall
    /\ calls' = calls + 1
    /\ lastOp' = "close"
    /\ IF waiting
       THEN /\ sup' = [op |-> "close_drain", i |-> 0, acc |-> <<>>, raw |-> <<>>,
                       pre |-> Pre]
            /\ UNCHANGED <<toWorker, ret>>
       ELSE CloseSend(calls + 1, Pre, <<>>)
    /\ UNCHANGED <<toParent, ps, env, waiting, closed, asyncId>>

\* A faulty variant of CloseCall that never drains the pending replies.
CloseCallNoDrain ==
    /\ CanCall
    /\ calls' = calls + 1
    /\ lastOp' = "close"
    /\ IF closed
       THEN /\ ret' = Returned("close", "ok", <<>>, <<>>, Pre, 0)
            /\ UNCHANGED <<toWorker, sup>>
       ELSE CloseSend(calls + 1, Pre, <<>>)
    /\ UNCHANGED <<toParent, ps, env, waiting, closed, asyncId>>

\* SubProcVecParallelEnv.close(), up to its first blocking point.
CloseCall ==
    /\ CanCall
    /\ calls' = calls + 1
    /\ lastOp' = "close"
    /\ IF closed
       THEN /\ ret' = Returned("close", "ok", <<>>, <<>>, Pre, 0)
            /\ UNCHANGED <<toWorker, sup>>
       ELSE IF waiting
       THEN /\ sup' = [op |-> "close_drain", i |-> 0, acc |-> <<>>, raw |-> <<>>,
                       pre |-> Pre]
            /\ UNCHANGED <<toWorker, ret>>
       ELSE CloseSend(calls + 1, Pre, <<>>)
    /\ UNCHANGED <<toParent, ps, env, waiting, closed, asyncId>>

\* "if self.waiting: for conn in self.parent_conns: conn.recv()": one recv;
\* after the last one the close commands are sent.
CloseDrainRecv ==
    /\ sup.op = "close_drain"
    /\ CanRecv(sup.i)
    /\ LET raw == Append(sup.raw, Head(toParent[sup.i]))
       IN  /\ toParent' = [toParent EXCEPT ![sup.i] = Tail(@)]
           /\ IF sup.i = NumEnvs - 1
              THEN CloseSend(calls, sup.pre, raw)
              ELSE /\ sup' = [sup EXCEPT !.i = @ + 1, !.raw = raw]
                   /\ UNCHANGED <<toWorker, ret>>
    /\ UNCHANGED <<ps, env, waiting, closed, calls, lastOp, asyncId>>

\* "for p in self.ps: p.join()": one join, which returns once process i has
\* ended; after the last one closed = True.
CloseJoin ==
    /\ sup.op = "close_join"
    /\ ~Alive(sup.i)
    /\ IF sup.i = NumEnvs - 1
       THEN /\ sup' = Idle
            /\ closed' = TRUE
            /\ ret' = Returned("close", "ok", <<>>, sup.raw, sup.pre, NumEnvs)
       ELSE /\ sup' = [sup EXCEPT !.i = @ + 1]
            /\ UNCHANGED <<closed, ret>>
    /\ UNCHANGED <<toWorker, toParent, ps, env, waiting, calls, lastOp, asyncId>>

\* The caller writes a command the worker loop does not know straight to
\* parent_conns[i], which is a public attribute of the pool.
RawSend(i) ==
    /\ CanCall
    /\ CanQueue(i)
    /\ toWorker' = [toWorker EXCEPT ![i] = Append(@, [cmd |-> "bogus", data |-> <<>>, id |-> calls + 1])]
    /\ calls' = calls + 1
    /\ lastOp' = "send"
    /\ ret' = Returned("send", "ok", <<>>, <<>>, Pre, 1)
    /\ UNCHANGED <<toParent, ps, env, waiting, closed, sup, asyncId>>

\* ------------------------------------- step_wait on arbitrary infos
\* The info dictionaries an environment can return in one step: every
\* insertion order of distinct keys drawn from InfoKeys, with values drawn
\* from InfoValues.  "_x" is the key under which the mask of "x" is stored.
InfoKeys == {"x", "_x"}
InfoValues == {IntV(1), FloatV(25)}
InfoDicts ==
    {<<>>}
      \cup { << <<k, v>> >> : k \in InfoKeys, v \in InfoValues }
      \cup UNION { { << <<k1, v1>>, <<k2, v2>> >> :
                        k2 \in InfoKeys \ {k1}, v1 \in InfoValues, v2 \in InfoValues } :
                    k1 \in InfoKeys }

VARIABLES
    infoArgs,   \* infoArgs[i]: the info dictionary worker i's environment returns in the step
    infoRes     \* the outcome of step_wait on these replies: [op, err, infos]

infoVars == <<infoArgs, infoRes>>

NoInfoRes == [op |-> "none", err |-> "none", infos |-> <<>>]
InfoIdle == infoArgs = [i \in EnvIds |-> <<>>] /\ infoRes = NoInfoRes

\* The reply of a worker whose environment stepped to time 1 without ending
\* the episode and returned the given info.
StepReply(info) ==
    [kind |-> "step",
     val |-> [obs |-> [ag \in Agents |-> 1],
              rew |-> [ag \in Agents |-> 0],
              term |-> [ag \in Agents |-> FALSE],
              trunc |-> [ag \in Agents |-> FALSE],
              info |-> info]]

\* step_wait's "for i, conn in enumerate(self.parent_conns)" from worker i
\* on, when every recv returns at once: replies[i] is what conn i delivers.
RECURSIVE StepWaitLoop(_, _, _)
StepWaitLoop(acc, replies, i) ==
    IF i >= NumEnvs THEN [err |-> "none", acc |-> acc]
    ELSE LET b == StepWaitBody(acc, replies[i], i)
         IN  IF b.err # "none" THEN b ELSE StepWaitLoop(b.acc, replies, i + 1)

\* step_wait, all replies being available.
StepWaitInfos ==
    /\ infoRes.op = "none"
    /\ LET r == StepWaitLoop(EmptyStepAcc, [i \in EnvIds |-> StepReply(infoArgs[i])], 0)
       IN  infoRes' = [op |-> "step_wait", err |-> r.err, infos |-> r.acc.infos]
    /\ UNCHANGED infoArgs

\* ------------------------------------------------ the update pipeline
\* Length of the longest list of update modules.
MaxModules == 2
\* Number of update_pipeline calls the caller makes in one behaviour.
MaxUpdates == 2

\* The update functions are arguments of update_pipeline.  The model has
\* three: two that return and one that raises.  What a returning function
\* returns is the term built from everything it was given, so that two
\* calls return equal states only if they had equal arguments.
FnIds == {"update_qvalue", "update_policy", "update_fail"}
InitStates == { <<"init", "s0">>, <<"init", "s1">> }
Batches == {"b1", "b2"}
RootKeys == { <<"k1">>, <<"k2">> }

\* state, module_info = module.update_fn(module.state, _key, batch)
UpdateFn(fn, state, key, batch) ==
    [raised |-> fn = "update_fail",
     state |-> <<"updated", fn, state, key, batch>>,
     info |-> IF fn = "update_qvalue"
              THEN << <<"loss", <<fn, state, key, batch>>>>,
                      <<"qvalue_loss", <<fn, state, key, batch>>>> >>
              ELSE << <<"loss", <<fn, state, key, batch>>>> >>]

\* An UpdateModule(update_fn, state), and module.replace(state=state)
UpdateModule(fn, state) == [update_fn |-> fn, state |-> state]
Replace(module, state) == [module EXCEPT !.state = state]

Modules == {UpdateModule(fn, s) : fn \in FnIds, s \in InitStates}
ModuleLists == UNION {[1 .. n -> Modules] : n \in 0 .. MaxModules}

\* A faulty variant of Split: every new key is the key itself.
SplitSame(key, num) == [j \in 1 .. num |-> key]

\* jax.random.split(key, num): num new keys, a function of key and num;
\* element j of the code's result is element j + 1 here.
Split(key, num) == [j \in 1 .. num |-> Append(key, <<num, j - 1>>)]

\* info |= module_info, from the j-th entry of module_info on
RECURSIVE DictUpdateFrom(_, _, _)
DictUpdateFrom(d, e, j) ==
    IF j > Len(e) THEN d ELSE DictUpdateFrom(DictSet(d, e[j][1], e[j][2]), e, j + 1)
\* A faulty variant of DictUpdate: a key the report already has keeps its value.
RECURSIVE DictUpdateKeep(_, _)
DictUpdateKeep(d, e) ==
    IF e = <<>> THEN d
    ELSE DictUpdateKeep(IF DictHas(d, Head(e)[1]) THEN d ELSE Append(d, Head(e)), Tail(e))
DictUpdate(d, e) == DictUpdateFrom(d, e, 1)

VARIABLES
    callerModules,  \* the list object the caller passes as update_modules
    updIn,          \* the arguments of the latest update_pipeline call: [modules, key, batch],
                    \*   modules being the content of the list when the call was made
    updOut,         \* its outcome: [status, modules, info, log], log being the calls it made
    updCalls        \* number of update_pipeline calls made so far

updVars == <<callerModules, updIn, updOut, updCalls>>

NoUpdIn == [modules |-> <<>>, key |-> <<>>, batch |-> "none"]
NoUpdOut == [status |-> "none", modules |-> <<>>, info |-> <<>>, log |-> <<>>]
UpdIdle == callerModules = <<>> /\ updIn = NoUpdIn /\ updOut = NoUpdOut /\ updCalls = 0

\* One entry of the log: module i (0-based) was called with these arguments.
Called(i, module, key, batch) ==
    [i |-> i, update_fn |-> module.update_fn, state |-> module.state, key |-> key, batch |-> batch]

\* A faulty variant of UpdatePipelineFrom: every module is updated from the state
\* of the first module of the list.
RECURSIVE UpdatePipelineThreaded(_, _, _, _, _, _)
UpdatePipelineThreaded(update_modules, key, batch, info, log, i) ==
    IF i > Len(update_modules)
    THEN [status |-> "ok", list |-> update_modules, info |-> info, log |-> log]
    ELSE LET module == update_modules[i]
             keys == Split(key, 2)
             out == UpdateFn(module.update_fn, update_modules[1].state, keys[2], batch)
             log1 == Append(log, Called(i - 1, Replace(module, update_modules[1].state),
                                      keys[2], batch))
         IN  IF out.raised
             THEN [status |-> "raised", list |-> update_modules, info |-> info, log |-> log1]
             ELSE UpdatePipelineThreaded(
                      [update_modules EXCEPT ![i] = Replace(module, out.state)],
                      keys[1], batch, DictUpdate(info, out.info), log1, i + 1)

\* A faulty variant of UpdatePipelineFrom: the state a failing update
\* function had built is written to the list before the exception leaves.
RECURSIVE UpdatePipelineWritesFailed(_, _, _, _, _, _)
UpdatePipelineWritesFailed(update_modules, key, batch, info, log, i) ==
    IF i > Len(update_modules)
    THEN [status |-> "ok", list |-> update_modules, info |-> info, log |-> log]
    ELSE LET module == update_modules[i]
             keys == Split(key, 2)
             out == UpdateFn(module.update_fn, module.state, keys[2], batch)
             log1 == Append(log, Called(i - 1, module, keys[2], batch))
             written == [update_modules EXCEPT ![i] = Replace(module, out.state)]
         IN  IF out.raised
             THEN [status |-> "raised", list |-> written, info |-> info, log |-> log1]
             ELSE UpdatePipelineWritesFailed(
                      written, keys[1], batch, DictUpdate(info, out.info), log1, i + 1)

\* update_pipeline's loop from module i (1-based) on.  update_modules is
\* the list being written to, key the running key, info the report so far.
\* The result is [status, list, info, log]: status "raised" when an update
\* function raised, list the content of the list object at that point.
RECURSIVE UpdatePipelineFrom(_, _, _, _, _, _)
UpdatePipelineFrom(update_modules, key, batch, info, log, i) ==
    IF i > Len(update_modules)
    THEN [status |-> "ok", list |-> update_modules, info |-> info, log |-> log]
    ELSE LET module == update_modules[i]
             keys == Split(key, 2)
             out == UpdateFn(module.update_fn, module.state, keys[2], batch)
             log1 == Append(log, Called(i - 1, module, keys[2], batch))
         IN  IF out.raised
             THEN [status |-> "raised", list |-> update_modules, info |-> info, log |-> log1]
             ELSE UpdatePipelineFrom(
                      [update_modules EXCEPT ![i] = Replace(module, out.state)],
                      keys[1], batch, DictUpdate(info, out.info), log1, i + 1)

\* update_pipeline(update_modules, key, batch) on the caller's list.  The
\* function assigns to update_modules[i], so the caller's list holds what
\* the loop wrote, also when the call raised; the return value is that
\* same list and the report.
UpdatePipeline ==
    /\ updCalls < MaxUpdates
    /\ \E key \in RootKeys, batch \in Batches :
         LET r == UpdatePipelineFrom(callerModules, key, batch, <<>>, <<>>, 1)
         IN  /\ updIn' = [modules |-> callerModules, key |-> key, batch |-> batch]
             /\ callerModules' = r.list
             /\ updOut' = [status |-> r.status,
                           modules |-> IF r.status = "ok" THEN r.list ELSE <<>>,
                           info |-> IF r.status = "ok" THEN r.info ELSE <<>>,
                           log |-> r.log]
    /\ updCalls' = updCalls + 1

\* --------------------------------------------- the experience pipeline
\* Length of the time axis of an experience.
ExpT == 2
\* Length of the longest list of experience transforms.
MaxStages == 2

\* An array is a sequence, an array of shape [T, n_envs] a sequence of T
\* rows of n_envs entries; an experience is the sequence of its fields'
\* arrays.  The input experience holds at every position a record naming
\* its field, time, environment and agent (0 and "" when there is none).
NumFields == 2
Rec(f, t, e, a) == <<"rec", f, t, e, a>>
\* experiences, as the caller passes them in each shape regime: a tuple of
\* arrays [T], of arrays [T, n_envs], or of dicts from agent to such arrays.
ScalarExperiences(a) == [f \in 1 .. NumFields |-> [t \in 1 .. ExpT |-> Rec(f, t - 1, 0, a)]]
VectorExperiences(a) ==
    [f \in 1 .. NumFields |-> [t \in 1 .. ExpT |-> [e \in 1 .. NumEnvs |-> Rec(f, t - 1, e - 1, a)]]]
Experiences(vectorized, parallel) ==
    IF parallel
    THEN [f \in 1 .. NumFields |->
             [a \in Agents |-> IF vectorized THEN VectorExperiences(a)[f]
                                             ELSE ScalarExperiences(a)[f]]]
    ELSE IF vectorized THEN VectorExperiences("") ELSE ScalarExperiences("")

\* The stage functions are arguments of the pipeline.  The model has three:
\* "scale" acts record by record and ignores the seed, "noise" acts record
\* by record and uses the seed, "reverse" ignores the seed and reverses the
\* time axis.  A processed record is the term built from what produced it.
StageFns == {"scale", "noise", "reverse"}
StageStates == {"s0", "s1"}
RecordWise == {"scale"}
\* transform.process_experience_fn(transform.state, key, experience), on an
\* experience whose arrays have shape [T].  (Appending <<>> leaves an array as
\* it is and has TLC compute it once, as a sequence.)
StageFn(fn, state, key, experience) ==
    [f \in 1 .. Len(experience) |->
        [t \in 1 .. Len(experience[f]) |->
            CASE fn = "scale" -> <<"scale", state, experience[f][t]>>
              [] fn = "noise" -> <<"noise", state, key, experience[f][t]>>
              [] fn = "reverse" ->
                     <<"reverse", state, experience[f][Len(experience[f]) + 1 - t]>>]
            \o <<>>] \o <<>>

ExperienceTransform(fn, state) == [process_experience_fn |-> fn, state |-> state]
Transforms == {ExperienceTransform(fn, s) : fn \in StageFns, s \in StageStates}
TransformLists == UNION {[1 .. n -> Transforms] : n \in 0 .. MaxStages}

\* One entry of the log of stage calls: stage i (0-based) was called with
\* these arguments and returned out.
StageCalled(i, transform, key, experience, out) ==
    [i |-> i, process_experience_fn |-> transform.process_experience_fn,
     state |-> transform.state, key |-> key, in |-> experience, out |-> out]

\* A faulty variant of ProcessExperienceFrom: every stage is applied to the
\* input experience, and the last output is returned.
RECURSIVE ProcessExperienceFanOut(_, _, _, _, _)
ProcessExperienceFanOut(experience_transforms, key, experience, made, i) ==
    IF i > Len(experience_transforms) THEN [out |-> experience, calls |-> made]
    ELSE LET transform == experience_transforms[i]
             first == IF made = <<>> THEN experience ELSE made[1].in
             out == StageFn(transform.process_experience_fn, transform.state, key, first)
         IN  ProcessExperienceFanOut(
                 experience_transforms, key, out,
                 Append(made, StageCalled(i - 1, transform, key, first, out)), i + 1)

\* process_experience_fn's "for transform in experience_transforms" from
\* stage i (1-based) on: [out, calls].
RECURSIVE ProcessExperienceFrom(_, _, _, _, _)
ProcessExperienceFrom(experience_transforms, key, experience, made, i) ==
    IF i > Len(experience_transforms) THEN [out |-> experience, calls |-> made]
    ELSE LET transform == experience_transforms[i]
             out == StageFn(transform.process_experience_fn, transform.state, key, experience)
         IN  ProcessExperienceFrom(
                 experience_transforms, key, out,
                 Append(made, StageCalled(i - 1, transform, key, experience, out)), i + 1)

\* process_experience_fn(key, *experience), as one invocation: who it was
\* for (agent, 0-based environment index; "" and 0 when there is none), the
\* key and experience it received, the stage calls it made and its result.
ProcessExperienceFn(experience_transforms, key, experience, agent, e) ==
    LET r == ProcessExperienceFrom(experience_transforms, key, experience, <<>>, 1)
    IN  [agent |-> agent, env |-> e, key |-> key, in |-> experience,
         calls |-> r.calls, out |-> r.out]

\* A faulty variant of Reshape: the flat batch is filled column by column.
ReshapeColumns(x) ==
    [idx \in 1 .. Len(x) * Len(x[1]) |-> x[((idx - 1) % Len(x)) + 1][((idx - 1) \div Len(x)) + 1]]

\* jnp.reshape(x, (-1, *x.shape[2:])) on an array of shape [T, n]: entry
\* (t, j) goes to index t * n + j (0-based).
Reshape(x) ==
    [idx \in 1 .. Len(x) * Len(x[1]) |->
        x[((idx - 1) \div Len(x[1])) + 1][((idx - 1) % Len(x[1])) + 1]]

\* x[None]: a new leading axis of length 1
AddAxis(x) == <<x>>

\* jax.vmap(process_experience_fn, in_axes=1, out_axes=1)(keys, *experiences):
\* one invocation per index e of axis 1, on the slices [:, e] of keys and of
\* every field, the results put back along axis 1.  [out, invs].
Vmap(experience_transforms, keys, experiences, agent) ==
    LET n == Len(experiences[1][1])
        inv == [e \in 1 .. n |->
                   ProcessExperienceFn(
                       experience_transforms,
                       [r \in 1 .. Len(keys) |-> keys[r][e]],
                       [f \in 1 .. Len(experiences) |->
                           [t \in 1 .. Len(experiences[f]) |-> experiences[f][t][e]]],
                       agent, e - 1)] \o <<>>
    IN  [out |-> [f \in 1 .. Len(experiences) |->
                     [t \in 1 .. Len(inv[1].out[f]) |-> [e \in 1 .. n |-> inv[e].out[f][t]]]],
         invs |-> {inv[e] : e \in 1 .. n}]

\* The orders in which a dict of the agents can be iterated: the caller's
\* insertion order is any of them; SortedAgents is the order of sorted keys.
AgentOrders ==
    {o \in [1 .. Cardinality(Agents) -> Agents] : \A i, j \in DOMAIN o : i # j => o[i] # o[j]}
SortedAgents == <<"a1", "a2">>

\* A faulty variant of AgentKeysFrom: the running key is not replaced.
RECURSIVE AgentKeysReused(_, _, _, _, _, _)
AgentKeysReused(key, order, vectorized, num, keys, i) ==
    IF i > Len(order) THEN keys
    ELSE LET _keys == Split(key, num)
         IN  AgentKeysReused(
                 key, order, vectorized, num,
                 (order[i] :> IF vectorized THEN AddAxis(Tail(_keys)) ELSE _keys[2]) @@ keys,
                 i + 1)

\* "for agent, value in experiences[0].items(): key, keys[agent] = ..." from
\* the i-th agent of the dict's order on.  num is the number of keys each
\* split makes: 2 in the parallel regime (keys[agent] is the second), and
\* n_envs + 1 when vectorized as well (keys[agent] is _keys[1:][None]).
RECURSIVE AgentKeysFrom(_, _, _, _, _, _)
AgentKeysFrom(key, order, vectorized, num, keys, i) ==
    IF i > Len(order) THEN keys
    ELSE LET _keys == Split(key, num)
         IN  AgentKeysFrom(
                 _keys[1], order, vectorized, num,
                 (order[i] :> IF vectorized THEN AddAxis(Tail(_keys)) ELSE _keys[2]) @@ keys,
                 i + 1)

\* A faulty variant of StackAndReshape: the arrays are stacked along axis 0.
StackAxis0AndReshape(x) ==
    Reshape([a \in 1 .. Len(x) |-> [t \in 1 .. Len(x[1]) |-> x[a][t]]])

\* stack_and_reshape(*x): x holds one array [T] per agent
StackAndReshape(x) ==
    Reshape([t \in 1 .. Len(x[1]) |-> [a \in 1 .. Len(x) |-> x[a][t]]])

\* jnp.concatenate(x, axis=1), row t, from the a-th array on
RECURSIVE ConcatRow(_, _, _)
ConcatRow(x, t, a) == IF a > Len(x) THEN <<>> ELSE x[a][t] \o ConcatRow(x, t, a + 1)
\* concat_and_reshape(*x): x holds one array [T, n_envs] per agent
ConcatAndReshape(x) == Reshape([t \in 1 .. Len(x[1]) |-> ConcatRow(x, t, 1)])

\* process_experience_pipeline_fn(experience_transforms, key, experiences)
\* of the factory called with (vectorized, parallel): [out, invs], the
\* returned experience and the invocations of process_experience_fn made.
\* order is the iteration order of the dict experiences[0], values that of
\* the dict tree_map returns.
ProcessExperiencePipelineFn(vectorized, parallel, experience_transforms, key, experiences, order, values) ==
    IF parallel /\ vectorized THEN
        LET keys == AgentKeysFrom(key, order, TRUE,
                                  Len(experiences[1][order[1]][1]) + 1, <<>>, 1)
            processed_experiences ==
                [a \in Agents |->
                    Vmap(experience_transforms, keys[a],
                         [f \in 1 .. Len(experiences) |-> experiences[f][a]], a)]
        IN  [out |-> [f \in 1 .. Len(experiences) |->
                         ConcatAndReshape([a \in 1 .. Len(values) |->
                                              processed_experiences[values[a]].out[f]])],
             invs |-> UNION {processed_experiences[a].invs : a \in Agents}]
    ELSE IF parallel THEN
        LET keys == AgentKeysFrom(key, order, FALSE, 2, <<>>, 1)
            processed_experiences ==
                [a \in Agents |->
                    ProcessExperienceFn(
                        experience_transforms, keys[a],
                        [f \in 1 .. Len(experiences) |-> experiences[f][a]], a, 0)]
        IN  [out |-> [f \in 1 .. Len(experiences) |->
                         StackAndReshape([a \in 1 .. Len(values) |->
                                             processed_experiences[values[a]].out[f]])],
             invs |-> {processed_experiences[a] : a \in Agents}]
    ELSE IF vectorized THEN
        LET keys == AddAxis(Split(key, Len(experiences[1][1])))
            processed_experiences == Vmap(experience_transforms, keys, experiences, "")
        IN  [out |-> [f \in 1 .. Len(experiences) |-> Reshape(processed_experiences.out[f])],
             invs |-> processed_experiences.invs]
    ELSE
        LET r == ProcessExperienceFn(experience_transforms, key, experiences, "", 0)
        IN  [out |-> r.out, invs |-> {r}]

VARIABLES
    expIn,      \* the flags given to the factory and the arguments of the pipeline call:
                \*   [vectorized, parallel, transforms, key, order, sorted]
    expOut      \* the outcome of the call: [status, out, invs]

expVars == <<expIn, expOut>>

NoExpIn == [vectorized |-> FALSE, parallel |-> FALSE, transforms |-> <<>>, key |-> <<>>,
            order |-> SortedAgents, sorted |-> TRUE]
NoExpOut == [status |-> "none", out |-> <<>>, invs |-> {}]
ExpIdle == expIn = NoExpIn /\ expOut = NoExpOut

\* The order of the values of the dict that tree_map returns: the order of
\* the sorted keys or the insertion order of its first argument, depending
\* on the version of jax.
ValuesOrder == IF expIn.sorted THEN SortedAgents ELSE expIn.order

\* One call of the pipeline made by process_experience_pipeline_factory.
ProcessExperiencePipeline ==
    /\ expOut.status = "none"
    /\ LET r == ProcessExperiencePipelineFn(
                    expIn.vectorized, expIn.parallel, expIn.transforms, expIn.key,
                    Experiences(expIn.vectorized, expIn.parallel), expIn.order, ValuesOrder)
       IN  expOut' = [status |-> "ok", out |-> r.out, invs |-> r.invs]
    /\ UNCHANGED expIn

\* ------------------------------------------- TD3 and SAC train states
\* Number of iterations of the training loop in one behaviour.
MaxSteps == 6
\* Largest policy_update_frequency, skip_steps, start_step and batch_size.
MaxFreq == 3
MaxSkip == 2
MaxStart == 2
MaxBatch == 2

\* Parameters are terms: what init_params, a gradient step or an incremental
\* update returns is built from what it was computed from.
\* A faulty variant of InitParams: the parameters depend on tabulate.
InitParamsTabulated(key, module, input_shapes, tabulate) ==
    <<"init", key, module, input_shapes, tabulate>>
\* init_params(key, module, input_shapes, tabulate): variables["params"] of
\* module.init(key, *dummy_inputs); tabulate only prints a table.
InitParams(key, module, input_shapes, tabulate) == <<"init", key, module, input_shapes>>

\* TrainState.create(apply_fn, params, target_params, tx); a sub-state made
\* without target_params has none.
NoTarget == <<"none">>
TrainState(params, target_params) == [params |-> params, target_params |-> target_params]
\* state.apply_gradients(grads=grads), the gradients being those of loss on args
ApplyGradients(state, loss, args) == [state EXCEPT !.params = <<"grad", loss, @, args>>]
\* optax.incremental_update(new_tensors, old_tensors, step_size)
IncrementalUpdate(new, old, tau) == <<"polyak", new, old, tau>>
Tau == "tau"

\* train_state_ddpg_factory(key, config, tabulate=...)
TrainStateDdpgFactory(key, tabulate) ==
    LET keys == Split(key, 2)
    IN  [policy_state |->
             TrainState(InitParams(keys[1], "Policy", <<"observation_shape", "()">>, tabulate),
                        InitParams(keys[1], "Policy", <<"observation_shape", "()">>, FALSE)),
         qvalue_state |->
             TrainState(InitParams(keys[2], "QValue", <<"observation_shape", "action_shape">>, tabulate),
                        InitParams(keys[2], "QValue", <<"observation_shape", "action_shape">>, FALSE))]

\* train_state_sac_factory(key, config, tabulate=...)
TrainStateSacFactory(key, tabulate) ==
    LET keys == Split(key, 3)
    IN  [policy_state |->
             TrainState(InitParams(keys[1], "policy", <<"observation_shape">>, tabulate),
                        InitParams(keys[1], "policy", <<"observation_shape">>, FALSE)),
         qvalue_state |->
             TrainState(InitParams(keys[2], "qvalue", <<"observation_shape", "action_shape">>, tabulate),
                        InitParams(keys[2], "qvalue", <<"observation_shape", "action_shape">>, FALSE)),
         alpha_state |->
             TrainState(InitParams(keys[3], "alpha", <<>>, tabulate), NoTarget)]

\* update_qvalue_fn(qvalue_state, batch), of TD3 and of SAC
UpdateQvalueFn(qvalue_state, batch) == ApplyGradients(qvalue_state, "loss_qvalue", <<batch>>)

\* target_params=optax.incremental_update(state.params, state.target_params, tau)
SmoothTarget(state) ==
    [state EXCEPT !.target_params = IncrementalUpdate(state.params, state.target_params, Tau)]

\* TD3's update_policy_fn(policy_state, qvalue_state, batch): (policy_state, qvalue_state)
Td3UpdatePolicyFn(policy_state, qvalue_state, batch) ==
    [policy_state |->
         SmoothTarget(ApplyGradients(policy_state, "loss_policy", <<qvalue_state.params, batch>>)),
     qvalue_state |-> SmoothTarget(qvalue_state)]

\* A faulty variant of Td3UpdateStepFn: the Q-value target is smoothed in
\* every call.
Td3UpdateStepFnSmoothsAlways(policy_state, qvalue_state, batch, step, policy_update_frequency) ==
    LET q == UpdateQvalueFn(qvalue_state, batch)
    IN  IF step % policy_update_frequency = 0
        THEN Td3UpdatePolicyFn(policy_state, q, batch)
        ELSE [policy_state |-> policy_state, qvalue_state |-> SmoothTarget(q)]

\* TD3's update_step_fn(policy_state, qvalue_state, batch, step)
Td3UpdateStepFn(policy_state, qvalue_state, batch, step, policy_update_frequency) ==
    LET q == UpdateQvalueFn(qvalue_state, batch)
    IN  IF step % policy_update_frequency = 0
        THEN Td3UpdatePolicyFn(policy_state, q, batch)
        ELSE [policy_state |-> policy_state, qvalue_state |-> q]

\* SAC's update_policy_fn(policy_state, qvalue_state, alpha_state, batch)
SacUpdatePolicyFn(policy_state, qvalue_state, alpha_state, batch) ==
    [policy_state |->
         SmoothTarget(ApplyGradients(policy_state, "loss_policy",
                                     <<qvalue_state.params, alpha_state.params, batch>>)),
     qvalue_state |-> SmoothTarget(qvalue_state)]

\* SAC's update_alpha_fn(key, policy_state, alpha_state, batch)
UpdateAlphaFn(key, policy_state, alpha_state, batch) ==
    ApplyGradients(alpha_state, "loss_alpha", <<key, policy_state.params, batch>>)

\* SAC's update_step_fn(state, key, batch)
SacUpdateStepFn(state, key, batch) ==
    LET q == UpdateQvalueFn(state.qvalue_state, batch)
        pq == SacUpdatePolicyFn(state.policy_state, q, state.alpha_state, batch)
    IN  [policy_state |-> pq.policy_state,
         qvalue_state |-> pq.qvalue_state,
         alpha_state |-> UpdateAlphaFn(key, pq.policy_state, state.alpha_state, batch)]

VARIABLES
    trainCfg,   \* the configuration: [algo, key, tabulate, policy_update_frequency,
                \*   skip_steps, start_step, batch_size, first]
    agent,      \* the agent: [phase, step, state]; step is self.step, state is self.state
    loop,       \* the training loop: [step, iters, buffer], buffer being len(buffer)
    lastUpdate, \* the latest update call: [n, step, before], its number, the self.step
                \*   it used and self.state before it
    polHist     \* polHist[n]: whether update call n changed the policy's parameters

trainVars == <<trainCfg, agent, loop, lastUpdate, polHist>>

TrainCfgs ==
    [algo : {"TD3", "SAC"}, key : RootKeys, tabulate : BOOLEAN,
     policy_update_frequency : 1 .. MaxFreq, skip_steps : 1 .. MaxSkip,
     start_step : 0 .. MaxStart, batch_size : 1 .. MaxBatch, first : {0, 1}]
NoTrainState == [policy_state |-> TrainState(NoTarget, NoTarget),
                 qvalue_state |-> TrainState(NoTarget, NoTarget)]
NoAgent == [phase |-> "new", step |-> 0, state |-> NoTrainState]
NoLoop == [step |-> 0, iters |-> 0, buffer |-> 0]
NoUpdate == [n |-> 0, step |-> 0, before |-> NoTrainState]
TrainIdle ==
    /\ trainCfg = [algo |-> "TD3", key |-> <<>>, tabulate |-> FALSE,
                   policy_update_frequency |-> 1, skip_steps |-> 1, start_step |-> 0,
                   batch_size |-> 1, first |-> 0]
    /\ agent = NoAgent /\ loop = NoLoop /\ lastUpdate = NoUpdate /\ polHist = <<>>

\* TD3.__init__ / SAC.__init__: the train state is made by the factory,
\* and self.step = 0.  The loop starts at step trainCfg.first.
AgentInit ==
    /\ agent.phase = "new"
    /\ agent' = [phase |-> "ready", step |-> 0,
                 state |-> IF trainCfg.algo = "TD3"
                           THEN TrainStateDdpgFactory(trainCfg.key, trainCfg.tabulate)
                           ELSE TrainStateSacFactory(trainCfg.key, trainCfg.tabulate)]
    /\ loop' = [NoLoop EXCEPT !.step = trainCfg.first]
    /\ UNCHANGED <<trainCfg, lastUpdate, polHist>>

\* should_update(step, buffer), after self.step = step
ShouldUpdate(step, buffer) ==
    /\ buffer >= trainCfg.batch_size
    /\ step % trainCfg.skip_steps = 0
    /\ step >= trainCfg.start_step

\* What buffer.sample and the experience pipeline give update at a step.
Batch(step) == <<"batch", step>>

\* update(buffer): self.state after the call, self.step being step
Update(state, step) ==
    IF trainCfg.algo = "TD3"
    THEN LET r == Td3UpdateStepFn(state.policy_state, state.qvalue_state, Batch(step), step,
                                  trainCfg.policy_update_frequency)
         IN  [state EXCEPT !.qvalue_state = r.qvalue_state, !.policy_state = r.policy_state]
    ELSE SacUpdateStepFn(state, <<"key", step>>, Batch(step))

\* One iteration of the training loop in which the agent updates: the
\* transition is stored, should_update(step, buffer) is true, update runs.
TrainIterUpdate ==
    /\ agent.phase = "ready" /\ loop.iters < MaxSteps
    /\ ShouldUpdate(loop.step, loop.buffer + 1)
    /\ LET new == Update(agent.state, loop.step)
       IN  /\ agent' = [agent EXCEPT !.step = loop.step, !.state = new]
           /\ lastUpdate' = [n |-> lastUpdate.n + 1, step |-> loop.step, before |-> agent.state]
           /\ polHist' = Append(polHist,
                                new.policy_state.params # agent.state.policy_state.params)
    /\ loop' = [step |-> loop.step + 1, iters |-> loop.iters + 1, buffer |-> loop.buffer + 1]
    /\ UNCHANGED trainCfg

\* One iteration in which should_update(step, buffer) is false.
TrainIterNoUpdate ==
    /\ agent.phase = "ready" /\ loop.iters < MaxSteps
    /\ ~ShouldUpdate(loop.step, loop.buffer + 1)
    /\ agent' = [agent EXCEPT !.step = loop.step]
    /\ loop' = [step |-> loop.step + 1, iters |-> loop.iters + 1, buffer |-> loop.buffer + 1]
    /\ UNCHANGED <<trainCfg, lastUpdate, polHist>>

\* ------------------------------------ the agents' entry points (DQN, TD3, SAC)
\* Largest step passed to should_update, capacity of the buffer, and the
\* number of values a uniform draw takes.
MaxApiStep == 3
MaxBuf == 3
MaxEps == 2

\* NO_EXPLORATION = 0.0; exploration coefficients and draws of
\* jax.random.uniform are counted in units of 1 / MaxEps, a draw being in
\* [0, 1): 0 .. MaxEps - 1.
NO_EXPLORATION == 0
EpsDraws == 0 .. MaxEps - 1
Explorations == 0 .. MaxEps

VARIABLES
    apiCfg,   \* [algo, batch_size, skip_steps, start_step, exploration]
    api       \* [step, buffer, last]: self.step, len(buffer), the latest call

apiVars == <<apiCfg, api>>

ApiCfgs ==
    [algo : {"DQN", "TD3", "SAC"}, batch_size : 1 .. MaxBuf - 1, skip_steps : 0 .. MaxSkip,
     start_step : 0 .. MaxStart, exploration : Explorations]
NoAction == <<"no action">>
NoCall == [op |-> "none", step |-> 0, result |-> "none", action |-> NoAction, sampled |-> 0]
NoApi == [step |-> 0, buffer |-> 0, last |-> NoCall]
ApiIdle ==
    /\ apiCfg = [algo |-> "DQN", batch_size |-> 1, skip_steps |-> 1, start_step |-> 0,
                 exploration |-> 0]
    /\ api = NoApi

\* buffer.add(...): one more record, up to the capacity of the ring.
BufferAdd ==
    /\ api.buffer < MaxBuf
    /\ api' = [api EXCEPT !.buffer = @ + 1, !.last = [NoCall EXCEPT !.op = "add"]]
    /\ UNCHANGED apiCfg

\* A faulty variant of ShouldUpdateResult: the buffer is not looked at.
ShouldUpdateIgnoresBuffer(algo, step, buffer) ==
    IF apiCfg.skip_steps = 0 THEN "ZeroDivisionError"
    ELSE IF step % apiCfg.skip_steps # 0 THEN "False"
    ELSE IF algo = "DQN" THEN "True"
    ELSE IF step >= apiCfg.start_step THEN "True" ELSE "False"

\* The value of should_update(step, buffer): "and" evaluates its operands
\* from the left and stops at the first false one; step % 0 raises.
ShouldUpdateResult(algo, step, buffer) ==
    IF ~(buffer >= apiCfg.batch_size) THEN "False"
    ELSE IF apiCfg.skip_steps = 0 THEN "ZeroDivisionError"
    ELSE IF step % apiCfg.skip_steps # 0 THEN "False"
    ELSE IF algo = "DQN" THEN "True"
    ELSE IF step >= apiCfg.start_step THEN "True" ELSE "False"

\* should_update(step, buffer): TD3 (and SAC) store step in self.step first.
ShouldUpdateCall ==
    \E step \in 0 .. MaxApiStep :
        /\ api' = [api EXCEPT
                      !.step = IF apiCfg.algo = "DQN" THEN @ ELSE step,
                      !.last = [NoCall EXCEPT
                                   !.op = "should_update", !.step = step,
                                   !.result = ShouldUpdateResult(apiCfg.algo, step, api.buffer)]]
        /\ UNCHANGED apiCfg

\* update(buffer), called by the training loop when should_update has just
\* returned True: buffer.sample(batch_size).
UpdateCall ==
    /\ api.last.op = "should_update" /\ api.last.result = "True"
    /\ api' = [api EXCEPT !.last = [NoCall EXCEPT !.op = "update", !.step = api.last.step,
                                                  !.sampled = apiCfg.batch_size]]
    /\ UNCHANGED apiCfg

\* Actions are terms that say how the action was computed.
GreedyAction == <<"greedy">>
EpsilonRandomAction == <<"epsilon-random">>
WarmUpRandomAction == <<"warm-up uniform">>
PolicyMean == <<"policy mean">>
PolicySample(noise) == <<"policy sample", noise>>

\* DQN's explore_fn(params, key, observations, exploration), eps being the
\* draw jax.random.uniform(key1, ...)
DqnExploreFn(eps, exploration) ==
    IF eps <= exploration THEN EpsilonRandomAction ELSE GreedyAction

\* TD3's explore_fn(policy_state, key, observations, action_noise): a sample
\* of the normal distribution around the policy's mean with scale
\* action_noise
Td3ExploreFn(action_noise) ==
    IF action_noise = "0.0" THEN PolicyMean ELSE PolicySample(action_noise)

\* SAC's explore_fn(policy_state, key, observations): a sample of the
\* policy's distribution
SacExploreFn == PolicySample("policy")

\* The warm-up of TD3.explore and SAC.explore: before start_step the action
\* is jax.random.uniform(...).
WarmUp(action) == IF api.step < apiCfg.start_step THEN WarmUpRandomAction ELSE action

\* explore(observation)
Explore(eps) ==
    CASE apiCfg.algo = "DQN" -> DqnExploreFn(eps, apiCfg.exploration)
      [] apiCfg.algo = "TD3" -> WarmUp(Td3ExploreFn("action_noise"))
      [] apiCfg.algo = "SAC" -> WarmUp(SacExploreFn)

\* select_action(observation)
SelectAction(eps) ==
    CASE apiCfg.algo = "DQN" -> DqnExploreFn(eps, NO_EXPLORATION)
      [] apiCfg.algo = "TD3" -> Td3ExploreFn("0.0")
      [] apiCfg.algo = "SAC" -> Explore(eps)

ExploreCall ==
    \E eps \in EpsDraws :
        /\ api' = [api EXCEPT !.last = [NoCall EXCEPT !.op = "explore", !.step = api.step,
                                                      !.action = Explore(eps)]]
        /\ UNCHANGED apiCfg

SelectActionCall ==
    \E eps \in EpsDraws :
        /\ api' = [api EXCEPT !.last = [NoCall EXCEPT !.op = "select_action", !.step = api.step,
                                                      !.action = SelectAction(eps)]]
        /\ UNCHANGED apiCfg

\* ------------------------------------------------ Saver and SaverContext
\* Largest step of a checkpoint, largest save_frequency, and the number of
\* save / update calls in one behaviour.
MaxSaveStep == 2
MaxSaveFreq == 2
MaxSaverCalls == 2

\* A training state is a tree of leaves.
Leaves == {"params", "opt_state"}
LeafValues == {"v0", "v1"}
StateTrees == [Leaves -> LeafValues]
SaveSteps == 0 .. MaxSaveStep
\* latest_step() of a directory without checkpoints is None.
NoStep == -1

\* What ckpt_manager.save writes for a tree: one (path, value) entry per leaf.
Serialize(tree) == {<<leaf, tree[leaf]>> : leaf \in DOMAIN tree}
\* A faulty variant of Deserialize: the template's own leaves are returned.
DeserializeKeepsTemplate(items, saved) == items
\* ckpt_manager.restore(step, items=...): the saved value of every leaf of
\* the template.
Deserialize(items, saved) ==
    [leaf \in DOMAIN items |-> CHOOSE v \in LeafValues : <<leaf, v>> \in saved]

VARIABLES
    saver,      \* [dir, last, log, n]: the numbered checkpoints on disk, the step of the
                \*   manager's last checkpoint, the calls of Saver.save, the number of
                \*   save / update calls made
    ctx,        \* the SaverContext: [phase, save_frequency, cur_step, cur_state, from, last]
    mem,        \* the agent's self.state
    restored    \* the latest restore_latest_step / resume: [op, status, step, state, before]

saveVars == <<saver, ctx, mem, restored>>

Max(S) == CHOOSE x \in S : \A y \in S : y <= x
EmptyDir == [step \in {} |-> {}]
NoSaver == [dir |-> EmptyDir, last |-> NoStep, log |-> <<>>, n |-> 0]
NoUpdateCall == [op |-> "none", step |-> 0, state |-> <<>>, saved |-> FALSE, raised |-> FALSE]
NoCtx == [phase |-> "none", save_frequency |-> 0, cur_step |-> 0, cur_state |-> <<>>,
          from |-> 0, last |-> NoUpdateCall]
InitTree == [leaf \in Leaves |-> "v0"]
NoRestored == [op |-> "none", status |-> "none", step |-> NoStep, state |-> InitTree,
               before |-> InitTree]
SaveIdle == saver = NoSaver /\ ctx = NoCtx /\ mem = InitTree /\ restored = NoRestored

\* self.ckpt_manager.save(step, ckpt, ...): the checkpoint manager writes
\* the numbered checkpoint unless its last checkpoint has that step or a
\* later one.
CkptManagerSave(sv, step, ckpt) ==
    IF sv.last # NoStep /\ sv.last >= step THEN sv
    ELSE [sv EXCEPT !.dir = (step :> Serialize(ckpt)) @@ sv.dir, !.last = step]

\* Saver.save(step, ckpt)
SaverSave(sv, step, ckpt) ==
    [CkptManagerSave(sv, step, ckpt) EXCEPT !.log = Append(sv.log, <<step, ckpt>>)]

\* self.ckpt_manager.latest_step()
LatestStep(sv) == IF DOMAIN sv.dir = {} THEN NoStep ELSE Max(DOMAIN sv.dir)

\* Saver.restore_latest_step(base_state_dict): (step, restored state), or
\* the error of restoring step None.
RestoreLatestStep(sv, base_state_dict) ==
    LET step == LatestStep(sv)
    IN  IF step = NoStep
        THEN [status |-> "raise", step |-> NoStep, state |-> base_state_dict]
        ELSE [status |-> "ok", step |-> step,
              state |-> Deserialize(base_state_dict, sv.dir[step])]

\* saver.save(step, state) called by the owner of the Saver.
SaveCall ==
    \E step \in SaveSteps, state \in StateTrees :
        /\ saver.n < MaxSaverCalls /\ ctx.phase = "none" /\ restored.op = "none"
        /\ saver' = [SaverSave(saver, step, state) EXCEPT !.n = @ + 1]
        /\ UNCHANGED <<ctx, mem, restored>>

\* Any change of the in-memory state, which only restore_latest_step and
\* resume read; it is left alone while a context is open.
Mutate ==
    \E state \in StateTrees \ {mem} :
        /\ restored.op = "none" /\ ctx.phase # "open"
        /\ mem' = state
        /\ UNCHANGED <<saver, ctx, restored>>

\* saver.restore_latest_step(self.state); a behaviour ends with one restore
\* or resume, made while no context is open.
RestoreCall ==
    /\ restored.op = "none" /\ ctx.phase # "open"
    /\ LET r == RestoreLatestStep(saver, mem)
       IN  restored' = [op |-> "restore", status |-> r.status, step |-> r.step,
                        state |-> r.state, before |-> mem]
    /\ UNCHANGED <<saver, ctx, mem>>

\* A faulty variant of ResumeState: the pre-resume state is kept.
ResumeKeepsState(r, state) == state
\* step, self.state = self.saver.restore_latest_step(self.state)
ResumeState(r, state) == IF r.status = "ok" THEN r.state ELSE state

\* DQN.resume / TD3.resume: self.state is replaced and train is called with
\* start_step=step; restored records what train is started with.
ResumeCall ==
    /\ restored.op = "none" /\ ctx.phase # "open"
    /\ LET r == RestoreLatestStep(saver, mem)
       IN  /\ mem' = ResumeState(r, mem)
           /\ restored' = [op |-> "resume", status |-> r.status, step |-> r.step,
                           state |-> mem', before |-> mem]
    /\ UNCHANGED <<saver, ctx>>

\* SaverContext(saver, save_frequency), entered
CtxEnter ==
    \E save_frequency \in -1 .. MaxSaveFreq :
        /\ ctx.phase = "none" /\ restored.op = "none"
        /\ ctx' = [NoCtx EXCEPT !.phase = "open", !.save_frequency = save_frequency,
                                !.from = Len(saver.log)]
        /\ UNCHANGED <<saver, mem, restored>>

\* SaverContext.update(step, state)
CtxUpdate ==
    \E step \in SaveSteps, state \in StateTrees :
        /\ ctx.phase = "open" /\ saver.n < MaxSaverCalls /\ restored.op = "none"
        /\ LET raises == ctx.save_frequency = 0
               saves == ctx.save_frequency > 0 /\ step % ctx.save_frequency = 0
           IN  /\ ctx' = [ctx EXCEPT
                             !.cur_step = step, !.cur_state = <<state>>,
                             !.last = [op |-> "update", step |-> step, state |-> <<state>>,
                                       saved |-> saves, raised |-> raises]]
               /\ saver' = [(IF saves THEN SaverSave(saver, step, state) ELSE saver)
                               EXCEPT !.n = @ + 1]
        /\ UNCHANGED <<mem, restored>>

\* A faulty variant of CtxExitSave: a negative save_frequency saves nothing.
CtxExitSaveIfEnabled(sv) ==
    IF ctx.cur_state = <<>> \/ ctx.save_frequency < 0 THEN sv
    ELSE SaverSave(sv, ctx.cur_step, ctx.cur_state[1])
\* SaverContext.__exit__: what it does to the saver
CtxExitSave(sv) ==
    IF ctx.cur_state = <<>> THEN sv ELSE SaverSave(sv, ctx.cur_step, ctx.cur_state[1])

\* The with block is left, normally or through an exception.
CtxExit ==
    \E exc \in BOOLEAN :
        /\ ctx.phase = "open" /\ restored.op = "none"
        /\ exc \/ ~ctx.last.raised
        /\ ctx' = [ctx EXCEPT !.phase = IF exc THEN "left by exception" ELSE "left"]
        /\ saver' = CtxExitSave(saver)
        /\ UNCHANGED <<mem, restored>>

\* --------------------------------- linear_interpolation and its inverse
\* Floating-point numbers with MantissaBits significant bits; every number
\* is an integer count of units of 2^-FracBits, up to MaxInt in magnitude.
MantissaBits == 3
FracBits == 3
MaxInt == 4

RECURSIVE Pow2(_)
Pow2(k) == IF k = 0 THEN 1 ELSE 2 * Pow2(k - 1)
Unit == Pow2(FracBits)
Abs(n) == IF n < 0 THEN -n ELSE n
\* n units is a floating-point number: its significant bits fit the mantissa.
Representable(n) ==
    \/ n = 0
    \/ \E k \in 0 .. FracBits + MaxInt : n % Pow2(k) = 0 /\ Abs(n) \div Pow2(k) < Pow2(MantissaBits)
Floats == {n \in -(MaxInt * Unit) .. MaxInt * Unit : Representable(n)}

\* The floating-point number nearest to a / b units (b > 0), ties going to
\* the one with the even mantissa.
Round(a, b) ==
    LET near == {n \in Floats : \A m \in Floats : Abs(a - n * b) <= Abs(a - m * b)}
        low == CHOOSE n \in near : \A m \in near : n <= m
        high == CHOOSE n \in near : \A m \in near : m <= n
    IN  IF low = high THEN low
        ELSE IF (low \div (high - low)) % 2 = 0 THEN low ELSE high

\* Floating-point arithmetic: the exact result, rounded.
FAdd(a, b) == Round(a + b, 1)
FSub(a, b) == Round(a - b, 1)
FMul(a, b) == Round(a * b, Unit)
FDiv(a, b) == Round(a * Unit, b)
\* x clamped to [0, 1]
Clamp01(x) == IF x < 0 THEN 0 ELSE IF x > Unit THEN Unit ELSE x

\* A faulty variant of LinearInterpolation: x is not clamped.
LinearInterpolationUnclamped(x, lo, hi) == FAdd(lo, FMul(x, FSub(hi, lo)))
\* linear_interpolation(x, lo, hi)
LinearInterpolation(x, lo, hi) == FAdd(lo, FMul(Clamp01(x), FSub(hi, lo)))
\* inverse_linear_interpolation(y, lo, hi)
InverseLinearInterpolation(y, lo, hi) == Clamp01(FDiv(FSub(y, lo), FSub(hi, lo)))

VARIABLES
    interpIn,   \* [x, lo, hi], lo < hi
    interpOut   \* [status, lin, inv, back]

interpVars == <<interpIn, interpOut>>

InterpInputs ==
    {in \in [x : {x \in Floats : -Unit <= x /\ x <= 2 * Unit},
             lo : {n * Unit : n \in -2 .. 1}, hi : {n * Unit : n \in -1 .. 2}] : in.lo < in.hi}
NoInterpOut == [status |-> "none", lin |-> 0, inv |-> 0, back |-> 0]
InterpIdle == interpIn = [x |-> 0, lo |-> 0, hi |-> Unit] /\ interpOut = NoInterpOut

\* Both functions applied to x, and the inverse applied to the
\* interpolation of x.
Interpolate ==
    /\ interpOut.status = "none"
    /\ LET lin == LinearInterpolation(interpIn.x, interpIn.lo, interpIn.hi)
       IN  interpOut' = [status |-> "done", lin |-> lin,
                         inv |-> InverseLinearInterpolation(interpIn.x, interpIn.lo, interpIn.hi),
                         back |-> InverseLinearInterpolation(lin, interpIn.lo, interpIn.hi)]
    /\ UNCHANGED interpIn

\* ---------------------------------------------------- specifications
vars == <<poolVars, infoVars, updVars, expVars, trainVars, apiVars, saveVars,
          interpVars>>

\* The pool and its caller.
Init == PoolInit /\ InfoIdle /\ UpdIdle /\ ExpIdle /\ TrainIdle /\ ApiIdle /\ SaveIdle /\ InterpIdle
Next ==
    \/ StepAsync /\ UNCHANGED <<infoVars, updVars, expVars, trainVars, apiVars, saveVars, interpVars>>
    \/ StepWaitCall /\ UNCHANGED <<infoVars, updVars, expVars, trainVars, apiVars, saveVars, interpVars>>
    \/ StepWaitRecv /\ UNCHANGED <<infoVars, updVars, expVars, trainVars, apiVars, saveVars, interpVars>>
    \/ ResetCall /\ UNCHANGED <<infoVars, updVars, expVars, trainVars, apiVars, saveVars, interpVars>>
    \/ ResetRecv /\ UNCHANGED <<infoVars, updVars, expVars, trainVars, apiVars, saveVars, interpVars>>
    \/ CloseCall /\ UNCHANGED <<infoVars, updVars, expVars, trainVars, apiVars, saveVars, interpVars>>
    \/ CloseDrainRecv /\ UNCHANGED <<infoVars, updVars, expVars, trainVars, apiVars, saveVars, interpVars>>
    \/ CloseJoin /\ UNCHANGED <<infoVars, updVars, expVars, trainVars, apiVars, saveVars, interpVars>>
    \/ RecvEOF /\ UNCHANGED <<infoVars, updVars, expVars, trainVars, apiVars, saveVars, interpVars>>
    \/ \E i \in EnvIds : RawSend(i) /\ UNCHANGED <<infoVars, updVars, expVars, trainVars, apiVars, saveVars, interpVars>>
    \/ \E i \in EnvIds : WorkerStep(i) /\ UNCHANGED <<infoVars, updVars, expVars, trainVars, apiVars, saveVars, interpVars>>
    \/ \E i \in EnvIds : WorkerStepRaise(i) /\ UNCHANGED <<infoVars, updVars, expVars, trainVars, apiVars, saveVars, interpVars>>
    \/ \E i \in EnvIds : WorkerReset(i) /\ UNCHANGED <<infoVars, updVars, expVars, trainVars, apiVars, saveVars, interpVars>>
    \/ \E i \in EnvIds : WorkerClose(i) /\ UNCHANGED <<infoVars, updVars, expVars, trainVars, apiVars, saveVars, interpVars>>
    \/ \E i \in EnvIds : WorkerUnknown(i) /\ UNCHANGED <<infoVars, updVars, expVars, trainVars, apiVars, saveVars, interpVars>>
Spec == Init /\ [][Next]_vars

\* step_wait on every combination of per-worker infos.
InitInfo ==
    PoolInit /\ UpdIdle /\ ExpIdle /\ TrainIdle /\ ApiIdle /\ SaveIdle /\ InterpIdle
        /\ infoArgs \in [EnvIds -> InfoDicts] /\ infoRes = NoInfoRes
NextInfo == StepWaitInfos /\ UNCHANGED <<poolVars, updVars, expVars, trainVars, apiVars, saveVars, interpVars>>
SpecInfo == InitInfo /\ [][NextInfo]_vars

\* update_pipeline on every list of modules.
InitUpdate ==
    /\ PoolInit /\ InfoIdle /\ ExpIdle /\ TrainIdle /\ ApiIdle /\ SaveIdle /\ InterpIdle
    /\ callerModules \in ModuleLists
    /\ updIn = NoUpdIn /\ updOut = NoUpdOut /\ updCalls = 0
NextUpdate == UpdatePipeline /\ UNCHANGED <<poolVars, infoVars, expVars, trainVars, apiVars, saveVars, interpVars>>
SpecUpdate == InitUpdate /\ [][NextUpdate]_vars

\* The experience pipeline in every shape regime, on every list of transforms.
InitExp ==
    /\ PoolInit /\ InfoIdle /\ UpdIdle /\ TrainIdle /\ ApiIdle /\ SaveIdle /\ InterpIdle
    /\ expIn \in [vectorized : BOOLEAN, parallel : BOOLEAN, transforms : TransformLists,
                  key : RootKeys, order : AgentOrders, sorted : BOOLEAN]
    /\ expOut = NoExpOut
NextExp == ProcessExperiencePipeline /\ UNCHANGED <<poolVars, infoVars, updVars, trainVars, apiVars, saveVars, interpVars>>
SpecExp == InitExp /\ [][NextExp]_vars

\* TD3 and SAC agents in the training loop, for every configuration.
InitTrain ==
    /\ PoolInit /\ InfoIdle /\ UpdIdle /\ ExpIdle /\ ApiIdle /\ SaveIdle /\ InterpIdle
    /\ trainCfg \in TrainCfgs
    /\ agent = NoAgent /\ loop = NoLoop /\ lastUpdate = NoUpdate /\ polHist = <<>>
NextTrain ==
    \/ AgentInit /\ UNCHANGED <<poolVars, infoVars, updVars, expVars, apiVars, saveVars, interpVars>>
    \/ TrainIterUpdate /\ UNCHANGED <<poolVars, infoVars, updVars, expVars, apiVars, saveVars, interpVars>>
    \/ TrainIterNoUpdate /\ UNCHANGED <<poolVars, infoVars, updVars, expVars, apiVars, saveVars, interpVars>>
SpecTrain == InitTrain /\ [][NextTrain]_vars

\* The entry points of DQN, TD3 and SAC, for every configuration.
InitApi ==
    /\ PoolInit /\ InfoIdle /\ UpdIdle /\ ExpIdle /\ TrainIdle /\ SaveIdle /\ InterpIdle
    /\ apiCfg \in ApiCfgs
    /\ api = NoApi
NextApi ==
    \/ BufferAdd /\ UNCHANGED <<poolVars, infoVars, updVars, expVars, trainVars, saveVars, interpVars>>
    \/ ShouldUpdateCall /\ UNCHANGED <<poolVars, infoVars, updVars, expVars, trainVars, saveVars, interpVars>>
    \/ UpdateCall /\ UNCHANGED <<poolVars, infoVars, updVars, expVars, trainVars, saveVars, interpVars>>
    \/ ExploreCall /\ UNCHANGED <<poolVars, infoVars, updVars, expVars, trainVars, saveVars, interpVars>>
    \/ SelectActionCall /\ UNCHANGED <<poolVars, infoVars, updVars, expVars, trainVars, saveVars, interpVars>>
SpecApi == InitApi /\ [][NextApi]_vars

\* A Saver, a SaverContext on it, and an agent that restores and resumes.
InitSave ==
    /\ PoolInit /\ InfoIdle /\ UpdIdle /\ ExpIdle /\ TrainIdle /\ ApiIdle
    /\ SaveIdle /\ InterpIdle
NextSave ==
    \/ SaveCall /\ UNCHANGED <<poolVars, infoVars, updVars, expVars, trainVars, apiVars, interpVars>>
    \/ Mutate /\ UNCHANGED <<poolVars, infoVars, updVars, expVars, trainVars, apiVars, interpVars>>
    \/ RestoreCall /\ UNCHANGED <<poolVars, infoVars, updVars, expVars, trainVars, apiVars, interpVars>>
    \/ ResumeCall /\ UNCHANGED <<poolVars, infoVars, updVars, expVars, trainVars, apiVars, interpVars>>
    \/ CtxEnter /\ UNCHANGED <<poolVars, infoVars, updVars, expVars, trainVars, apiVars, interpVars>>
    \/ CtxUpdate /\ UNCHANGED <<poolVars, infoVars, updVars, expVars, trainVars, apiVars, interpVars>>
    \/ CtxExit /\ UNCHANGED <<poolVars, infoVars, updVars, expVars, trainVars, apiVars, interpVars>>
SpecSave == InitSave /\ [][NextSave]_vars

\* linear_interpolation and inverse_linear_interpolation on every input.
InitInterp ==
    /\ PoolInit /\ InfoIdle /\ UpdIdle /\ ExpIdle /\ TrainIdle /\ ApiIdle /\ SaveIdle
    /\ interpIn \in InterpInputs
    /\ interpOut = NoInterpOut
NextInterp ==
    Interpolate /\ UNCHANGED <<poolVars, infoVars, updVars, expVars, trainVars, apiVars, saveVars>>
SpecInterp == InitInterp /\ [][NextInterp]_vars

\* The pool under a caller that follows the protocol of VecParallelEnv: after
\* construction, reset or step_async immediately followed by step_wait, any
\* number of times, then close, and nothing after close.  No environment call
\* raises or hangs and nobody writes to the pipes directly.
ProtocolAllows(op) ==
    /\ lastOp # "close"
    /\ (op = "step_wait") <=> (lastOp = "step_async")
NotPool == <<infoVars, updVars, expVars, trainVars, apiVars, saveVars, interpVars>>
LiveStepAsync == ProtocolAllows("step_async") /\ StepAsync /\ UNCHANGED NotPool
LiveStepWaitCall == ProtocolAllows("step_wait") /\ StepWaitCall /\ UNCHANGED NotPool
LiveResetCall == ProtocolAllows("reset") /\ ResetCall /\ UNCHANGED NotPool
LiveCloseCall == ProtocolAllows("close") /\ CloseCall /\ UNCHANGED NotPool
LiveStepWaitRecv == StepWaitRecv /\ UNCHANGED NotPool
LiveResetRecv == ResetRecv /\ UNCHANGED NotPool
LiveCloseJoin == CloseJoin /\ UNCHANGED NotPool
LiveWorkerStep(i) == WorkerStep(i) /\ UNCHANGED NotPool
LiveWorkerReset(i) == WorkerReset(i) /\ UNCHANGED NotPool
LiveWorkerClose(i) == WorkerClose(i) /\ UNCHANGED NotPool
NextLive ==
    \/ LiveStepAsync
    \/ LiveStepWaitCall
    \/ LiveStepWaitRecv
    \/ LiveResetCall
    \/ LiveResetRecv
    \/ LiveCloseCall
    \/ LiveCloseJoin
    \/ \E i \in EnvIds : LiveWorkerStep(i)
    \/ \E i \in EnvIds : LiveWorkerReset(i)
    \/ \E i \in EnvIds : LiveWorkerClose(i)
\* One turn of worker i's loop.
LiveWorker(i) == LiveWorkerStep(i) \/ LiveWorkerReset(i) \/ LiveWorkerClose(i)
\* The blocking conn.recv() of step_wait or reset returns: the oldest reply
\* leaves the pipe the supervisor is reading.
RecvReturns ==
    /\ sup.op \in {"step_wait", "reset"}
    /\ CanRecv(sup.i)
    /\ toParent' = [toParent EXCEPT ![sup.i] = Tail(@)]
\* Every worker process is scheduled: a request in its pipe is eventually
\* received and handled (env.step and env.reset return).  A blocking recv of
\* the supervisor returns once a reply is in the pipe, a join once the
\* process has ended.  The caller is under no obligation to call anything.
FairLive ==
    /\ \A i \in EnvIds : WF_vars(LiveWorker(i))
    /\ WF_toParent(RecvReturns)
    /\ WF_vars(LiveCloseJoin)
SpecLive == Init /\ [][NextLive]_vars /\ FairLive

\* ============================================================ claims
\* Messages of a pipe, as a set.
Msgs(q) == {q[j] : j \in 1 .. Len(q)}

\* C1: a step_async called while a step is already pending raises an error
\* and sends no step message to any worker.
C1_SecondStepAsyncRaises ==
    (ret.op = "step_async" /\ ret.pre.pending) => (ret.status # "ok" /\ ret.sent = 0)

\* C2: when step_wait returns the step that step_async put in flight, each
\* agent's observations, rewards, terminateds and truncateds are sequences of
\* exactly NumEnvs values, and entry i is what worker i replied to the step
\* request of the preceding step_async, whatever the order in which the
\* workers finished.
C2_StepWaitWorkerOrder ==
    (ret.op = "step_wait" /\ ret.status = "ok" /\ ret.pre.inflight) =>
        /\ Len(ret.raw) = NumEnvs
        /\ \A ag \in Agents :
             /\ Len(ret.val.observations[ag]) = NumEnvs
             /\ Len(ret.val.rewards[ag]) = NumEnvs
             /\ Len(ret.val.terminateds[ag]) = NumEnvs
             /\ Len(ret.val.truncateds[ag]) = NumEnvs
             /\ \A i \in EnvIds :
                  LET m == ret.raw[i + 1] IN
                  /\ m.kind = "step" /\ m.from = i /\ m.id = asyncId
                  /\ ret.val.observations[ag][i + 1] = m.val.obs[ag]
                  /\ ret.val.rewards[ag][i + 1] = m.val.rew[ag]
                  /\ ret.val.rewards[ag][i + 1] = <<asyncId, ag, i>>
                  /\ ret.val.terminateds[ag][i + 1] = m.val.term[ag]
                  /\ ret.val.truncateds[ag][i + 1] = m.val.trunc[ag]
\* A step_wait has returned a step for which, when step_wait was called, the
\* last worker had replied and worker 0 had not; the observations of the
\* two differ.
C2_Witness ==
    /\ ret.op = "step_wait" /\ ret.status = "ok" /\ ret.pre.inflight /\ ret.pre.lastFirst
    /\ \E ag \in Agents : ret.val.observations[ag][1] # ret.val.observations[ag][NumEnvs]

\* C3: a step reply of a worker whose env.step reported terminated or
\* truncated for at least one agent was built after env.reset(): it carries
\* the post-reset observation, the step's observation and info under
\* final_observation and final_info, and the step's reward, terminated and
\* truncated; otherwise the environment was not reset and the reply is
\* what env.step returned.
C3_AutoReset ==
    \A i \in EnvIds : \A m \in Msgs(toParent[i]) :
        m.kind = "step" =>
            /\ m.val.rew = m.out.rew
            /\ m.val.term = m.out.term
            /\ m.val.trunc = m.out.trunc
            /\ IF (\E ag \in Agents : m.out.term[ag]) \/ (\E ag \in Agents : m.out.trunc[ag])
               THEN /\ m.didReset
                    /\ m.val.obs = EnvReset.obs
                    /\ DictHas(m.val.info, "final_observation")
                    /\ DictGet(m.val.info, "final_observation") = ObsV(m.out.obs)
                    /\ DictHas(m.val.info, "final_info")
                    /\ DictGet(m.val.info, "final_info") = InfoV(m.out.info)
               ELSE /\ ~m.didReset
                    /\ m.val.obs = m.out.obs
                    /\ m.val.info = m.out.info
\* Worker 0 replied to a step that ended for one agent only, worker 1 to a
\* step that ended for none.
C3_Witness ==
    /\ \E m \in Msgs(toParent[0]) :
         /\ m.kind = "step" /\ m.didReset
         /\ \E a1, a2 \in Agents : m.out.term[a1] /\ ~m.out.term[a2] /\ ~m.out.trunc[a2]
    /\ \E m \in Msgs(toParent[1]) : m.kind = "step" /\ ~m.didReset

\* C4: a reset called while a step is in flight returns every worker's reset
\* result and leaves no step request or step reply behind.
C4_ResetCancelsStep ==
    (ret.op = "reset" /\ ret.pre.inflight) =>
        /\ ret.status = "ok"
        /\ \A m \in Msgs(ret.raw) : m.kind = "reset"
        /\ \A i \in EnvIds : \A j \in 1 .. Len(Outstanding(i)) : Outstanding(i)[j] # "step"

PoolState == <<toWorker, toParent, ps, env, waiting, closed, sup>>

\* C5: once closed, a close call returns normally without sending, receiving
\* or joining anything: the pipes, the processes, the environments and the
\* pool's fields are unchanged.
C5_CloseIdempotent ==
    [][(closed /\ calls' # calls /\ lastOp' = "close")
           => (ret'.op = "close" /\ ret'.status = "ok" /\ ret'.sent = 0
               /\ UNCHANGED PoolState)]_vars
\* A close call made on a closed pool has returned.
C5_Witness ==
    /\ closed /\ lastOp = "close" /\ sup.op = "idle"
    /\ ret.op = "close" /\ ret.status = "ok" /\ ret.sent = 0

\* C6: a close called with a step in flight has received the step reply of
\* every worker, in worker order, before any close command is sent, and it
\* returns only once every worker has processed close and exited.
C6_CloseDrainsThenJoins ==
    /\ (sup.op = "close_drain" /\ sup.pre.inflight) =>
           \A i \in EnvIds : ps[i].st # "exited"
                             /\ \A j \in 1 .. Len(Outstanding(i)) : Outstanding(i)[j] # "close"
    /\ (sup.op = "close_join" /\ sup.pre.inflight) =>
           /\ Len(sup.raw) = NumEnvs
           /\ \A i \in EnvIds : sup.raw[i + 1].kind = "step" /\ sup.raw[i + 1].from = i
                                /\ sup.raw[i + 1].id = asyncId
    /\ (ret.op = "close" /\ ret.pre.inflight /\ ret.status = "ok") =>
           /\ closed
           /\ Len(ret.raw) = NumEnvs
           /\ \A i \in EnvIds : ps[i].st = "exited" /\ ps[i].why = "close" /\ env[i] = EnvClosed
\* A close called with a step in flight has returned.
C6_Witness == ret.op = "close" /\ ret.pre.inflight /\ ret.status = "ok" /\ closed

\* C7: a worker that receives an unknown command ends with an exception
\* without sending a reply, the other workers are not affected, and from
\* then on it receives no command and sends no reply.
C7_UnknownCommandFatal ==
    /\ [][\A i \in EnvIds :
            (Alive(i) /\ toWorker[i] # <<>> /\ Head(toWorker[i]).cmd \notin KnownCmds
                 /\ toWorker'[i] = Tail(toWorker[i]))
            => /\ ps'[i].st = "crashed" /\ ps'[i].why = "NotImplementedError"
               /\ toParent'[i] = toParent[i]
               /\ \A j \in EnvIds \ {i} : ps'[j] = ps[j]]_vars
    /\ [][\A i \in EnvIds :
            (ps[i].st = "crashed" /\ ps[i].why = "NotImplementedError")
            => /\ ps'[i] = ps[i]
               /\ Len(toWorker'[i]) >= Len(toWorker[i])
               /\ toParent'[i] = toParent[i] \/ toParent'[i] = Tail(toParent[i])]_vars
\* Worker 0 died on an unknown command, a later command waits unread in its
\* pipe, and worker 1 has answered that later command.
C7_Witness ==
    /\ ps[0].st = "crashed" /\ ps[0].why = "NotImplementedError"
    /\ \E m \in Msgs(toWorker[0]) : m.id > ps[0].at
    /\ Alive(1)
    /\ \E m \in Msgs(toParent[1]) : m.id > ps[0].at

\* C8: a worker whose env.step raises sends no reply for that step, stays
\* dead for ever (no worker is restarted), receives no later command and
\* sends no later reply; and once the supervisor has nothing left to receive
\* from it, no step_wait returns a result.
C8_EnvCrashDegradesPool ==
    /\ [][\A i \in EnvIds :
            (Alive(i) /\ ps'[i].st = "crashed" /\ ps'[i].why = "env.step")
            => toParent'[i] = toParent[i]]_vars
    /\ [][\A i \in EnvIds :
            ~Alive(i)
            => /\ ps'[i] = ps[i]
               /\ Len(toWorker'[i]) >= Len(toWorker[i])
               /\ toParent'[i] = toParent[i] \/ toParent'[i] = Tail(toParent[i])]_vars
    /\ [][(\E i \in EnvIds :
              /\ ps[i].st = "crashed" /\ ps[i].why = "env.step"
              /\ toParent[i] = <<>>
              /\ ~(sup.op = "step_wait" /\ sup.i > i))
          => ~(sup.op = "step_wait" /\ sup'.op = "idle" /\ ret'.status = "ok")]_vars
\* Worker 0 died in env.step during a step, and the step_wait for that step
\* has been called and has not returned.
C8_Witness ==
    /\ ps[0].st = "crashed" /\ ps[0].why = "env.step" /\ ps[0].at = asyncId
    /\ lastOp = "step_wait" /\ sup.op = "step_wait" /\ sup.i = 0
    /\ Alive(1) /\ \E m \in Msgs(toParent[1]) : m.id = asyncId

\* The workers that reported key k in the step, and what worker i reported.
Reported(k) == {i \in EnvIds : DictHas(infoArgs[i], k)}
ReportedKeys == UNION {DictKeys(infoArgs[i]) : i \in EnvIds}

\* C9: for every combination of per-worker info dictionaries returned in
\* one step, step_wait returns without an error, and for each key k that
\* some worker reported its infos hold an array infos[k] and a boolean
\* mask infos["_" + k], both of length N, such that mask[i] is true exactly
\* for the workers i that reported k and infos[k][i] equals worker i's
\* value for each of them.
C9_InfoMasks ==
    infoRes.op = "step_wait" =>
        /\ infoRes.err = "none"
        /\ \A k \in ReportedKeys :
             /\ k \in DOMAIN infoRes.infos
             /\ MaskKey(k) \in DOMAIN infoRes.infos
             /\ DOMAIN infoRes.infos[k].a = EnvIds
             /\ DOMAIN infoRes.infos[MaskKey(k)].a = EnvIds
             /\ infoRes.infos[MaskKey(k)].dtype = "bool"
             /\ \A i \in EnvIds :
                  /\ (infoRes.infos[MaskKey(k)].a[i].v # 0) <=> (i \in Reported(k))
                  /\ i \in Reported(k) =>
                         infoRes.infos[k].a[i].v = DictGet(infoArgs[i], k).v

\* C10: an update_pipeline call that returns has called the update_fn of
\* every module exactly once, in list order, module i with its own
\* pre-call state and with the shared batch, and returns a list of the
\* same length in which module i has the update_fn it had and the state
\* that its own update_fn returned.
C10_EachModuleUpdatedOnce ==
    updOut.status = "ok" =>
        /\ Len(updOut.log) = Len(updIn.modules)
        /\ Len(updOut.modules) = Len(updIn.modules)
        /\ \A i \in 1 .. Len(updIn.modules) :
             /\ updOut.log[i].i = i - 1
             /\ updOut.log[i].update_fn = updIn.modules[i].update_fn
             /\ updOut.log[i].state = updIn.modules[i].state
             /\ updOut.log[i].batch = updIn.batch
             /\ updOut.modules[i].update_fn = updIn.modules[i].update_fn
             /\ updOut.modules[i].state =
                    UpdateFn(updIn.modules[i].update_fn, updIn.modules[i].state,
                             updOut.log[i].key, updIn.batch).state

\* A returned call on two modules with different functions and states, the
\* second call of the behaviour.
C10_Witness ==
    /\ updOut.status = "ok" /\ updCalls = MaxUpdates
    /\ Len(updIn.modules) >= 2
    /\ updIn.modules[1].update_fn # updIn.modules[2].update_fn
    /\ updIn.modules[1].state # updIn.modules[2].state

\* What module i (1-based) of the latest update_pipeline call reported: the
\* module_info its update_fn returns on the arguments it was called with.
ModuleInfo(i) ==
    UpdateFn(updOut.log[i].update_fn, updOut.log[i].state,
             updOut.log[i].key, updOut.log[i].batch).info
\* The modules of the latest call whose module_info has key k.
Reporters(k) == {i \in 1 .. Len(updOut.log) : DictHas(ModuleInfo(i), k)}
Last(S) == CHOOSE i \in S : \A j \in S : j <= i

\* C11: the report returned by update_pipeline has exactly the keys that
\* some module's diagnostics dictionary has, and under each key the value
\* reported by the last module, in list order, that reports the key.
C11_ReportIsMergedInfo ==
    updOut.status = "ok" =>
        /\ DictKeys(updOut.info) =
               UNION {DictKeys(ModuleInfo(i)) : i \in 1 .. Len(updOut.log)}
        /\ \A k \in DictKeys(updOut.info) :
               DictGet(updOut.info, k) = DictGet(ModuleInfo(Last(Reporters(k))), k)

\* A returned call in which two modules report "loss" with different values
\* and only the first reports "qvalue_loss".
C11_Witness ==
    /\ updOut.status = "ok" /\ Len(updOut.log) = 2
    /\ Reporters("loss") = {1, 2}
    /\ Reporters("qvalue_loss") = {1}
    /\ DictGet(ModuleInfo(1), "loss") # DictGet(ModuleInfo(2), "loss")

\* The state returned by the update_fn of module i of the latest call.
NewState(i) ==
    UpdateFn(updOut.log[i].update_fn, updOut.log[i].state,
             updOut.log[i].key, updOut.log[i].batch).state

\* C12: when the update function of module j raises, the caller's list
\* still holds module j with its pre-call state, and the state of every
\* module in the list is either its whole pre-call state or the whole state
\* its own update function returned.
C12_FailedUpdateKeepsState ==
    updOut.status = "raised" =>
        /\ Len(callerModules) = Len(updIn.modules)
        /\ Len(updOut.log) \in 1 .. Len(updIn.modules)
        /\ callerModules[Len(updOut.log)] = updIn.modules[Len(updOut.log)]
        /\ \A i \in 1 .. Len(callerModules) :
               \/ callerModules[i].state = updIn.modules[i].state
               \/ i < Len(updOut.log) /\ callerModules[i].state = NewState(i)

\* A call whose second module raised after the first had returned.
C12_Witness ==
    /\ updOut.status = "raised" /\ Len(updOut.log) = 2
    /\ updOut.log[1].update_fn # "update_fail"

\* The sub-seed of module i (0-based) of a call with input key `key`: the
\* second half of the split of the first half of ... of the split of key.
RECURSIVE SubSeed(_, _)
SubSeed(key, i) == IF i = 0 THEN Split(key, 2)[2] ELSE SubSeed(Split(key, 2)[1], i - 1)

\* C13: in one update_pipeline call the sub-seeds passed to the modules are
\* pairwise distinct, none of them is the input key, and the sub-seed of
\* module i is a function of the input key and i alone.
C13_DistinctSubSeeds ==
    updOut.status # "none" =>
        /\ \A i, j \in 1 .. Len(updOut.log) :
               i # j => updOut.log[i].key # updOut.log[j].key
        /\ \A i \in 1 .. Len(updOut.log) :
               /\ updOut.log[i].key # updIn.key
               /\ updOut.log[i].key = SubSeed(updIn.key, i - 1)

\* A call that passed sub-seeds to two modules.
C13_Witness == updOut.status = "ok" /\ Len(updOut.log) = 2

\* The invocation of process_experience_fn made for agent a and environment
\* index e (0-based) in the latest pipeline call.
Inv(a, e) == CHOOSE inv \in expOut.invs : inv.agent = a /\ inv.env = e

\* C14: in every invocation of process_experience_fn the stages are called
\* in list order, once each, stage i with its own state, the first on the
\* invocation's input experience and every later one on the output of the
\* one before; the invocation returns the output of the last stage, or its
\* input when the list is empty, and without vectorized and parallel that
\* is what the pipeline returns for the experience it was given.
C14_StagesInOrder ==
    expOut.status = "ok" =>
        /\ \A inv \in expOut.invs :
             /\ Len(inv.calls) = Len(expIn.transforms)
             /\ \A i \in 1 .. Len(inv.calls) :
                  /\ inv.calls[i].i = i - 1
                  /\ inv.calls[i].process_experience_fn =
                         expIn.transforms[i].process_experience_fn
                  /\ inv.calls[i].state = expIn.transforms[i].state
                  /\ inv.calls[i].in = IF i = 1 THEN inv.in ELSE inv.calls[i - 1].out
             /\ inv.out = IF inv.calls = <<>> THEN inv.in ELSE inv.calls[Len(inv.calls)].out
        /\ (~expIn.vectorized /\ ~expIn.parallel) =>
               /\ Cardinality(expOut.invs) = 1
               /\ Inv("", 0).in = ScalarExperiences("")
               /\ expOut.out = Inv("", 0).out

\* A scalar pipeline call with two stages that differ in function and state.
C14_Witness ==
    /\ expOut.status = "ok" /\ ~expIn.vectorized /\ ~expIn.parallel
    /\ Len(expIn.transforms) = 2
    /\ expIn.transforms[1].process_experience_fn # expIn.transforms[2].process_experience_fn
    /\ expIn.transforms[1].state # expIn.transforms[2].state

\* The running key when the p-th agent (1-based) of the dict's order is
\* reached, each split making num keys.
RECURSIVE RunningKey(_, _, _)
RunningKey(key, num, p) == IF p = 1 THEN key ELSE RunningKey(Split(key, num)[1], num, p - 1)
\* The position of agent a in an order.
Pos(order, a) == CHOOSE p \in DOMAIN order : order[p] = a
\* The sub-seed that the invocation for agent a and environment index e
\* (0-based) is to receive in each regime.
SubSeedOf(a, e) ==
    IF expIn.parallel /\ expIn.vectorized
    THEN AddAxis(Split(RunningKey(expIn.key, NumEnvs + 1, Pos(expIn.order, a)), NumEnvs + 1)[e + 2])
    ELSE IF expIn.parallel
    THEN Split(RunningKey(expIn.key, 2, Pos(expIn.order, a)), 2)[2]
    ELSE AddAxis(Split(expIn.key, NumEnvs)[e + 1])
\* The (agent, environment index) pairs that get an invocation of their own.
Slices ==
    (IF expIn.parallel THEN Agents ELSE {""})
        \X (IF expIn.vectorized THEN 0 .. (NumEnvs - 1) ELSE {0})

\* C15: with vectorized, parallel or both, there is exactly one invocation
\* per environment index, per agent, or per (agent, environment index)
\* pair; the sub-seeds of any two invocations differ, and the sub-seed of
\* each is the split of the input seed that the iteration order over the
\* agents and the environment indices gives it.
C15_DistinctSubSeedPerInvocation ==
    (expOut.status = "ok" /\ (expIn.vectorized \/ expIn.parallel)) =>
        /\ {<<inv.agent, inv.env>> : inv \in expOut.invs} = Slices
        /\ Cardinality(expOut.invs) = Cardinality(Slices)
        /\ \A inv1, inv2 \in expOut.invs : inv1 # inv2 => inv1.key # inv2.key
        /\ \A inv \in expOut.invs : inv.key = SubSeedOf(inv.agent, inv.env)

\* A call with both flags set whose agents are not in sorted order.
C15_Witness ==
    /\ expOut.status = "ok" /\ expIn.vectorized /\ expIn.parallel
    /\ expIn.order # SortedAgents
    /\ Cardinality(expOut.invs) = Cardinality(Agents) * NumEnvs

\* The T * n_envs records of the vectorized input as one scalar-shaped
\* experience, the record of time t and environment e at index t * n_envs + e.
FlatRecords ==
    [f \in 1 .. NumFields |->
        [idx \in 1 .. ExpT * NumEnvs |->
            Rec(f, (idx - 1) \div NumEnvs, (idx - 1) % NumEnvs, "")]]
AllRecordWise ==
    \A i \in 1 .. Len(expIn.transforms) :
        expIn.transforms[i].process_experience_fn \in RecordWise

\* C16: when every stage acts record by record and ignores the seed, the
\* vectorized pipeline on the [T, n_envs] experience returns the flat batch
\* that the scalar pipeline returns on its T * n_envs records, the record
\* of time t and environment e at index t * n_envs + e.
C16_VectorizedEqualsScalar ==
    (expOut.status = "ok" /\ expIn.vectorized /\ ~expIn.parallel /\ AllRecordWise) =>
        /\ \A f \in 1 .. NumFields : Len(expOut.out[f]) = ExpT * NumEnvs
        /\ expOut.out =
               ProcessExperienceFn(expIn.transforms, expIn.key, FlatRecords, "", 0).out

\* A vectorized call with two record-wise stages of different states.
C16_Witness ==
    /\ expOut.status = "ok" /\ expIn.vectorized /\ ~expIn.parallel /\ AllRecordWise
    /\ Len(expIn.transforms) = 2
    /\ expIn.transforms[1].state # expIn.transforms[2].state

\* C17: with parallel set the pipeline returns one flat batch per field
\* that holds every agent's processed records once each: of length
\* T * n_agents, record t of the a-th agent at index t * n_agents + a, and
\* with vectorized set as well of length T * n_agents * n_envs, record t of
\* the a-th agent in environment e at index (t * n_agents + a) * n_envs + e
\* (0-based; the a-th agent in the order of the values of processed_experiences).
C17_ParallelFlatBatch ==
    (expOut.status = "ok" /\ expIn.parallel) =>
        \A f \in 1 .. NumFields :
            IF expIn.vectorized
            THEN /\ Len(expOut.out[f]) = ExpT * Cardinality(Agents) * NumEnvs
                 /\ \A t \in 0 .. (ExpT - 1), a \in 0 .. (Cardinality(Agents) - 1),
                       e \in 0 .. (NumEnvs - 1) :
                        expOut.out[f][(t * Cardinality(Agents) + a) * NumEnvs + e + 1] =
                            Inv(ValuesOrder[a + 1], e).out[f][t + 1]
            ELSE /\ Len(expOut.out[f]) = ExpT * Cardinality(Agents)
                 /\ \A t \in 0 .. (ExpT - 1), a \in 0 .. (Cardinality(Agents) - 1) :
                        expOut.out[f][t * Cardinality(Agents) + a + 1] =
                            Inv(ValuesOrder[a + 1], 0).out[f][t + 1]

\* A call with both flags set, the agents not in sorted order, with a stage
\* that reverses the time axis.
C17_Witness ==
    /\ expOut.status = "ok" /\ expIn.parallel /\ expIn.vectorized
    /\ expIn.order # SortedAgents
    /\ Len(expIn.transforms) = 1
    /\ expIn.transforms[1].process_experience_fn = "reverse"

\* The sub-states of TD3 and SAC that have target parameters.
TargetSubStates == {"policy_state", "qvalue_state"}
\* The latest update call took a gradient step on a sub-state.
Stepped(sub) == agent.state[sub].params # lastUpdate.before[sub].params
\* The latest update call smoothed the target of a sub-state toward its live
\* parameters with coefficient tau.
Smoothed(sub) ==
    agent.state[sub].target_params
        = IncrementalUpdate(agent.state[sub].params, lastUpdate.before[sub].target_params, Tau)
\* The latest update call of TD3 ran with a step that is not a multiple of
\* policy_update_frequency.
Gated == trainCfg.algo = "TD3" /\ lastUpdate.step % trainCfg.policy_update_frequency # 0

\* C18, as stated: in TD3 and SAC every update call that takes a gradient
\* step on a sub-state with target parameters also smooths that sub-state's
\* target with coefficient tau in the same call.
C18_EveryGradientStepSmoothsTarget ==
    lastUpdate.n > 0 => \A sub \in TargetSubStates : Stepped(sub) => Smoothed(sub)

\* C18, amended: every update call takes a gradient step on qvalue_state.  In
\* SAC, and in TD3 when the step is a multiple of policy_update_frequency, it
\* also takes a gradient step on policy_state and smooths both targets with
\* coefficient tau; in the other calls of TD3 policy_state and the Q-value
\* target are left as they are.
C18_SmoothingFollowsSchedule ==
    lastUpdate.n > 0 =>
        /\ Stepped("qvalue_state")
        /\ IF Gated
           THEN /\ agent.state.policy_state = lastUpdate.before.policy_state
                /\ agent.state.qvalue_state.target_params
                       = lastUpdate.before.qvalue_state.target_params
           ELSE \A sub \in TargetSubStates : Stepped(sub) /\ Smoothed(sub)
C18_Witness ==
    /\ lastUpdate.n > 1 /\ Gated
    /\ polHist[lastUpdate.n - 1]

\* C19: in TD3 with policy_update_frequency = k the policy and the targets
\* are updated on exactly every k-th call of update, whatever skip_steps and
\* start_step are, and the Q-value network on every call.
C19_PolicyEveryKthCall ==
    trainCfg.algo = "TD3" =>
        /\ lastUpdate.n > 0 => Stepped("qvalue_state")
        /\ \E r \in 0 .. trainCfg.policy_update_frequency - 1 :
               \A n \in 1 .. Len(polHist) :
                   polHist[n] <=> (n % trainCfg.policy_update_frequency = r)

\* C20: every sub-state made by the TD3 and SAC factories that has target
\* parameters starts with target_params equal to params.
C20_InitialTargetEqualsParams ==
    (agent.phase = "ready" /\ lastUpdate.n = 0) =>
        \A sub \in DOMAIN agent.state :
            agent.state[sub].target_params # NoTarget =>
                agent.state[sub].target_params = agent.state[sub].params
C20_Witness ==
    /\ agent.phase = "ready" /\ lastUpdate.n = 0
    /\ trainCfg.algo = "SAC" /\ trainCfg.tabulate
    /\ agent.state.alpha_state.target_params = NoTarget

\* C21: whenever should_update(step, buffer) returns True the buffer holds at
\* least batch_size records and step is a multiple of skip_steps (for TD3
\* also step >= start_step), and an update that follows it samples no more
\* records than the buffer holds.
C21_ShouldUpdateGuardsSample ==
    /\ (api.last.op = "should_update" /\ api.last.result = "True") =>
           /\ api.buffer >= apiCfg.batch_size
           /\ apiCfg.skip_steps # 0
           /\ api.last.step % apiCfg.skip_steps = 0
           /\ apiCfg.algo = "TD3" => api.last.step >= apiCfg.start_step
    /\ api.last.op = "update" => api.last.sampled <= api.buffer
C21_Witness ==
    /\ api.last.op = "update" /\ apiCfg.algo = "TD3"
    /\ api.last.sampled = api.buffer /\ api.last.step > 0 /\ apiCfg.start_step > 0

\* C22: for DQN, TD3 and SAC, at every step and for every random draw,
\* select_action returns an action with no exploration applied: not the
\* epsilon-random action, not the warm-up uniform action, not a sample drawn
\* with exploration noise.
C22_SelectActionNeverExplores ==
    api.last.op = "select_action" =>
        /\ api.last.action # EpsilonRandomAction
        /\ api.last.action # WarmUpRandomAction
        /\ api.last.action[1] # "policy sample"

\* step is a multiple of save_frequency
IsMultiple(step, save_frequency) ==
    IF save_frequency = 0 THEN step = 0 ELSE step % save_frequency = 0

\* C23: SaverContext.update(step, state) saves state under step exactly when
\* save_frequency is not negative and step is a multiple of it, and in
\* every case records (step, state) as the context's current step and state.
C23_UpdateSavesOnFrequency ==
    (ctx.phase = "open" /\ ctx.last.op = "update") =>
        /\ ctx.last.saved <=>
               (ctx.save_frequency >= 0 /\ IsMultiple(ctx.last.step, ctx.save_frequency))
        /\ ctx.last.saved =>
               saver.log[Len(saver.log)] = <<ctx.last.step, ctx.last.state[1]>>
        /\ ctx.cur_step = ctx.last.step /\ ctx.cur_state = ctx.last.state

\* The steps of the calls of Saver.save are pairwise distinct.
DistinctSteps(log) == \A i, j \in 1 .. Len(log) : i # j => log[i][1] # log[j][1]
\* The call of Saver.save with the highest step.
HighestSave(log) == log[CHOOSE i \in 1 .. Len(log) : \A j \in 1 .. Len(log) : log[j][1] <= log[i][1]]

\* C24: after Saver.save calls with distinct steps and any changes of the
\* in-memory state, restore_latest_step returns the highest saved step and
\* a state equal, leaf for leaf, to the state saved at that step.
C24_RestoreLatestRoundTrip ==
    (restored.op = "restore" /\ saver.log # <<>> /\ DistinctSteps(saver.log)) =>
        /\ restored.status = "ok"
        /\ restored.step = HighestSave(saver.log)[1]
        /\ \A leaf \in Leaves : restored.state[leaf] = HighestSave(saver.log)[2][leaf]
C24_Witness ==
    /\ restored.op = "restore" /\ Len(saver.log) = 2 /\ DistinctSteps(saver.log)
    /\ saver.log[1][1] > saver.log[2][1]
    /\ saver.log[1][2] # saver.log[2][2]
    /\ restored.before # restored.state /\ restored.before # saver.log[2][2]

\* C25: resume replaces the agent's whole training state by the state of
\* the latest checkpoint and starts the training loop at that checkpoint's
\* step; without a checkpoint the loop is not started at all.
C25_ResumeFromLatestCheckpoint ==
    restored.op = "resume" =>
        IF DOMAIN saver.dir = {}
        THEN restored.status = "raise"
        ELSE /\ restored.status = "ok"
             /\ restored.step = Max(DOMAIN saver.dir)
             /\ restored.state = mem
             /\ Serialize(mem) = saver.dir[restored.step]
C25_Witness ==
    /\ restored.op = "resume" /\ restored.status = "ok"
    /\ restored.step > 0 /\ restored.before # restored.state
    /\ \E step \in DOMAIN saver.dir : step < restored.step

\* The calls of Saver.save made since the context was entered.
Lifetime == SubSeq(saver.log, ctx.from + 1, Len(saver.log))
Left == ctx.phase \in {"left", "left by exception"}

\* C30, as stated: on leaving a SaverContext the state and step most
\* recently passed to update are saved, for every save_frequency; nothing
\* is saved if update was never called; and no step is saved more than once
\* over the lifetime of the context.
C30_ExitSavesOnce ==
    Left =>
        /\ ctx.cur_state # <<>> =>
               Lifetime # <<>> /\ Lifetime[Len(Lifetime)] = <<ctx.cur_step, ctx.cur_state[1]>>
        /\ ctx.cur_state = <<>> => Lifetime = <<>>
        /\ DistinctSteps(Lifetime)

\* C30, amended: the first two parts as stated; and when the last update
\* has itself saved its step, leaving the context saves the same step and
\* state a second time.
C30_ExitSavesLast ==
    Left =>
        /\ ctx.cur_state # <<>> =>
               Lifetime # <<>> /\ Lifetime[Len(Lifetime)] = <<ctx.cur_step, ctx.cur_state[1]>>
        /\ ctx.cur_state = <<>> => Lifetime = <<>>
        /\ ctx.last.saved =>
               /\ Len(Lifetime) >= 2
               /\ Lifetime[Len(Lifetime) - 1] = Lifetime[Len(Lifetime)]
C30_Witness ==
    /\ ctx.phase = "left by exception" /\ ctx.last.saved
    /\ Len(Lifetime) = 2 /\ ctx.cur_step > 0

\* The call made on x, lo, hi given in units of one.
Called26(x2, lo, hi) ==
    /\ interpOut.status = "done"
    /\ 2 * interpIn.x = x2 * Unit /\ interpIn.lo = lo * Unit /\ interpIn.hi = hi * Unit
\* The assertions of test_linear_interpolation and
\* test_inverse_linear_interpolation, the first argument in halves.
TestsPass ==
    /\ Called26(0, -1, 1) => interpOut.lin = -Unit /\ 2 * interpOut.inv = Unit
    /\ Called26(1, -2, 0) => interpOut.lin = -Unit /\ interpOut.inv = Unit
    /\ Called26(-1, -2, 0) => interpOut.lin = -2 * Unit /\ 4 * interpOut.inv = 3 * Unit

\* No operation of the round trip on the input rounds its result.
ExactRoundTrip ==
    LET c == Clamp01(interpIn.x)
        w == interpIn.hi - interpIn.lo
    IN  /\ Representable(w)
        /\ (c * w) % Unit = 0 /\ Representable((c * w) \div Unit)
        /\ Representable(interpIn.lo + (c * w) \div Unit)

C29_CallerListUnchanged ==
    updOut.status # "none" =>
        /\ Len(callerModules) = Len(updIn.modules)
        /\ \A i \in 1 .. Len(callerModules) : callerModules[i].state = updIn.modules[i].state

\* A step request that the supervisor sent has a reply it has not received:
\* the request or its reply is still in a pipe.
StepOutstanding ==
    \E i \in EnvIds : \E j \in 1 .. Len(Outstanding(i)) : Outstanding(i)[j] = "step"

\* C28: between the calls of reset, step_async, step_wait and close, the flag
\* waiting is true exactly when some step request has a reply that the
\* supervisor has not yet received.
C28_WaitingIffStepOutstanding ==
    sup.op = "idle" => (waiting <=> StepOutstanding)

\* A worker's answer to a request: in one step, worker i takes the request at
\* the head of its pipe and appends to its reply pipe exactly one reply, of
\* the request's kind and carrying the request's number.
AnswersHead(i) ==
    /\ toWorker[i] # <<>>
    /\ toWorker'[i] = Tail(toWorker[i])
    /\ toParent'[i] # <<>>
    /\ toParent'[i] = Append(toParent[i], toParent'[i][Len(toParent'[i])])
    /\ toParent'[i][Len(toParent'[i])].kind = Head(toWorker[i]).cmd
    /\ toParent'[i][Len(toParent'[i])].id = Head(toWorker[i]).id
    /\ toParent'[i][Len(toParent'[i])].from = i
\* Worker i takes a reset or step request from its pipe.
TakesRequest(i) ==
    /\ toWorker[i] # <<>>
    /\ Head(toWorker[i]).cmd \in {"reset", "step"}
    /\ toWorker'[i] = Tail(toWorker[i])
\* Worker i sends something.
Sends(i) == Len(toParent'[i]) > Len(toParent[i])
OneReplyPerCommand ==
    \A i \in EnvIds : (TakesRequest(i) \/ Sends(i)) => AnswersHead(i)
StepWaitCalled == sup.op = "step_wait"
StepWaitReturned == sup.op = "idle" /\ ret.op = "step_wait" /\ ret.status = "ok"
\* C27: under a caller that follows the protocol, with environment calls that
\* return, every worker sends exactly one reply per reset or step request it
\* received, in the order of the requests, and every step_wait that is called
\* eventually returns.
C27_StepWaitReturns ==
    [][OneReplyPerCommand]_vars /\ (StepWaitCalled ~> StepWaitReturned)
\* step_wait returned the batch although the last worker had replied before
\* the first one.
C27_Witness ==
    /\ StepWaitReturned
    /\ lastOp = "step_wait"
    /\ ret.pre.lastFirst
    /\ Len(ret.raw) = NumEnvs
====
